---- MODULE Spec2Model ----
(***************************************************************************)
(* Model of llamacontroller's core: the GPU allocation / lifecycle manager *)
(* (core/lifecycle.py), the llama-server process adapter (core/adapter.py) *)
(* and the process registry the manager writes to.                         *)
(*                                                                         *)
(* Scheduling.  The manager's operations are coroutines of one asyncio     *)
(* event loop: a coroutine runs until its next await that really suspends  *)
(* (the HTTP health probe, asyncio.sleep).  Every adapter owns a monitor   *)
(* thread, and every child is an OS process; both run truly concurrently   *)
(* with the event loop and may step between any two steps of a coroutine.  *)
(***************************************************************************)
EXTENDS Integers, Sequences, FiniteSets, TLC

\* ------------------------------------------------------------------------
\* Bounds of the model
\* ------------------------------------------------------------------------
\* longest resource-spec string enumerated for the normalisation functions
MaxLen == 5
\* number of manager operations in one behaviour that get as far as starting
\* or stopping a child (calls that return at once are not counted)
MaxOps == 2
\* number of calls made on one supervisor in one behaviour
MaxCalls == 4
\* number of lines a child prints before it falls silent
MaxLines == 303
\* number of characters the pipe between the child and the monitor holds
PipeCapacity == 6
\* lines in the buffer get_logs is called on
MaxBuf == 3

\* ------------------------------------------------------------------------
\* Program constants
\* ------------------------------------------------------------------------
GpuPort0 == 8081
GpuPort1 == 8088
MaxGpuIndex == 7
PortStride == 7
ExtrapolationBase == 8081

\* ------------------------------------------------------------------------
\* Python strings as sequences of one-character strings
\* ------------------------------------------------------------------------
DigitChar == <<"0", "1", "2", "3", "4", "5", "6", "7", "8", "9">>

IsDigit(c) == \E d \in 1..10 : DigitChar[d] = c

DigitVal(c) == (CHOOSE d \in 1..10 : DigitChar[d] = c) - 1

RECURSIVE StrOfNat(_)
StrOfNat(n) ==
    IF n < 10 THEN <<DigitChar[n + 1]>>
    ELSE StrOfNat(n \div 10) \o <<DigitChar[(n % 10) + 1]>>

\* str(i) for a Python int
StrOfInt(i) == IF i < 0 THEN <<"-">> \o StrOfNat(0 - i) ELSE StrOfNat(i)

\* s.split(sep): always at least one (possibly empty) field
RECURSIVE SplitFrom(_, _, _)
SplitFrom(s, sep, cur) ==
    IF s = <<>> THEN <<cur>>
    ELSE IF Head(s) = sep THEN <<cur>> \o SplitFrom(Tail(s), sep, <<>>)
    ELSE SplitFrom(Tail(s), sep, Append(cur, Head(s)))

Split(s, sep) == SplitFrom(s, sep, <<>>)

\* the characters str.strip() removes
Whitespace == {" ", "\t", "\n", "\r"}

RECURSIVE LStrip(_)
LStrip(s) ==
    IF s # <<>> /\ Head(s) \in Whitespace THEN LStrip(Tail(s)) ELSE s

RECURSIVE RStrip(_)
RStrip(s) ==
    IF s # <<>> /\ s[Len(s)] \in Whitespace
        THEN RStrip(SubSeq(s, 1, Len(s) - 1))
    ELSE s

\* x.strip()
Strip(s) == RStrip(LStrip(s))

RECURSIVE DigitsValue(_, _)
DigitsValue(s, acc) ==
    IF s = <<>> THEN acc ELSE DigitsValue(Tail(s), acc * 10 + DigitVal(Head(s)))

\* int(s) for the digits that follow the blanks and the sign: one or more
\* digits, anything else is a ValueError (ok = FALSE)
IntOfDigits(body, sign) ==
    IF body = <<>> \/ \E k \in 1..Len(body) : ~IsDigit(body[k])
        THEN [ok |-> FALSE, val |-> 0]
    ELSE [ok |-> TRUE, val |-> sign * DigitsValue(body, 0)]

\* int(s) for s without surrounding blanks: an optional sign, then digits
IntOfStripped(t) ==
    IF t # <<>> /\ Head(t) \in {"-", "+"}
        THEN IntOfDigits(Tail(t), IF Head(t) = "-" THEN 0 - 1 ELSE 1)
    ELSE IntOfDigits(t, 1)

\* int(s)
IntParse(s) == IntOfStripped(Strip(s))

\* sorted(list) for a list of integers
RECURSIVE InsertSorted(_, _)
InsertSorted(x, s) ==
    IF s = <<>> THEN <<x>>
    ELSE IF x <= Head(s) THEN <<x>> \o s
    ELSE <<Head(s)>> \o InsertSorted(x, Tail(s))

\* the list as it is, not sorted
Unsorted(s) == s

RECURSIVE Sorted(_)
Sorted(s) == IF s = <<>> THEN <<>> ELSE InsertSorted(Head(s), Sorted(Tail(s)))

\* sep.join(str(g) for g in ids)
RECURSIVE JoinInts(_)
JoinInts(ids) ==
    IF ids = <<>> THEN <<>>
    ELSE IF Len(ids) = 1 THEN StrOfInt(ids[1])
    ELSE StrOfInt(Head(ids)) \o <<",">> \o JoinInts(Tail(ids))

SeqRange(s) == {s[k] : k \in 1..Len(s)}

\* ------------------------------------------------------------------------
\* Resource specs as the callers pass them: a Python int or a Python str
\* ------------------------------------------------------------------------
RawInt(i) == [kind |-> "int", val |-> i, chars |-> <<>>]
RawStr(s) == [kind |-> "str", val |-> 0, chars |-> s]

StrBoth == <<"b", "o", "t", "h">>

\* _validate_and_parse_gpu_id: str(gpu_id) of an int argument
SpecText(raw) == IF raw.kind = "int" THEN StrOfInt(raw.val) ELSE raw.chars

\* _validate_and_parse_gpu_id: the deprecated "both" stands for "0,1"
Deprecated(s) == IF s = StrBoth THEN <<"0", ",", "1">> ELSE s

\* _validate_and_parse_gpu_id: [int(x.strip()) for x in gpu_id.split(',')]
ParseTokens(toks) == [k \in 1..Len(toks) |-> IntParse(Strip(toks[k]))]

\* the checks without the duplicate check
CheckIdsNoDuplicateCheck(parsed) ==
    IF \E k \in 1..Len(parsed) : ~parsed[k].ok
        THEN [ok |-> FALSE, ids |-> <<>>, err |-> "invalid_literal"]
    ELSE IF \E k \in 1..Len(parsed) :
                parsed[k].val < 0 \/ parsed[k].val > MaxGpuIndex
        THEN [ok |-> FALSE, ids |-> <<>>, err |-> "out_of_range"]
    ELSE [ok |-> TRUE, ids |-> Sorted([k \in 1..Len(parsed) |-> parsed[k].val]),
          err |-> "none"]

\* _validate_and_parse_gpu_id: a ValueError of int(), then the range check,
\* then the duplicate check, then sorted()
CheckIds(parsed) ==
    IF \E k \in 1..Len(parsed) : ~parsed[k].ok
        THEN [ok |-> FALSE, ids |-> <<>>, err |-> "invalid_literal"]
    ELSE IF \E k \in 1..Len(parsed) :
                parsed[k].val < 0 \/ parsed[k].val > MaxGpuIndex
        THEN [ok |-> FALSE, ids |-> <<>>, err |-> "out_of_range"]
    ELSE IF Len(parsed) # Cardinality({parsed[k].val : k \in 1..Len(parsed)})
        THEN [ok |-> FALSE, ids |-> <<>>, err |-> "duplicate"]
    ELSE [ok |-> TRUE, ids |-> Sorted([k \in 1..Len(parsed) |-> parsed[k].val]),
          err |-> "none"]

\* ModelLifecycleManager._validate_and_parse_gpu_id
ValidateAndParse(raw) ==
    CheckIds(ParseTokens(Split(Deprecated(SpecText(raw)), ",")))

\* _normalize_gpu_id: ','.join(str(g) for g in gpu_list), or the error
KeyOf(p) ==
    IF p.ok THEN [ok |-> TRUE, key |-> JoinInts(p.ids), err |-> "none"]
    ELSE [ok |-> FALSE, key |-> <<>>, err |-> p.err]

\* ModelLifecycleManager._normalize_gpu_id
NormalizeGpuId(raw) == KeyOf(ValidateAndParse(raw))

\* GpuPortsConfig with its defaults
DefaultGpuPorts == [gpu0 |-> GpuPort0, gpu1 |-> GpuPort1]

\* get_port_for_gpu under the configuration cfg: the configured port of
\* device 0 or 1, the literal 8081 + 7 * index for any other device
ConfiguredPort(cfg, primary) ==
    IF primary = 0 THEN cfg.gpu0
    ELSE IF primary = 1 THEN cfg.gpu1
    ELSE ExtrapolationBase + primary * PortStride

\* get_port_for_gpu: the port of the primary (first) device
PortOfPrimary(primary) == ConfiguredPort(DefaultGpuPorts, primary)

\* ModelLifecycleManager.get_port_for_gpu (called with a valid spec only)
GetPortForGpu(raw) == PortOfPrimary(ValidateAndParse(raw).ids[1])

\* ------------------------------------------------------------------------
\* Configuration (immutable inputs of one manager lifetime)
\* ------------------------------------------------------------------------
\* ids of the configured model list
Models == {"m1", "m2"}
\* model ids callers pass; "mx" is not configured
ModelIds == Models \cup {"mx"}
\* a lookup that finds every id
GetModelAny(m) == TRUE

\* ModelsConfig.get_model: is there a configured model with this id
GetModel(m) == m \in Models
\* LlamaCppConfig.restart_on_crash and max_restart_attempts (defaults)
RestartOnCrash == TRUE
MaxRestartAttempts == 3

\* resource specs callers pass to the manager's operations
OpSpecs ==
    { RawInt(0),
      RawStr(<<"1">>),
      RawStr(<<"1", ",", "0">>),
      RawStr(StrBoth),
      RawStr(<<"x">>),
      RawStr(<<"0", ",", "0">>),
      RawStr(<<"8">>) }

\* the normalised keys of the valid specs among them: what load_model passes
\* on to _check_gpu_conflicts and get_port_for_gpu, and switch_model to
\* unload_model and load_model
OpKeys == {RawStr(NormalizeGpuId(raw).key) : raw \in {r \in OpSpecs : NormalizeGpuId(r).ok}}

\* the functions above, tabulated over the specs the manager is called with
NormTable == [raw \in OpSpecs \cup OpKeys |-> NormalizeGpuId(raw)]
ParseTable == [raw \in OpKeys |-> ValidateAndParse(raw)]
PortTable == [raw \in OpKeys |-> GetPortForGpu(raw)]

\* coroutines of the event loop that can be in flight together
Slots == {1, 2}
\* adapters (supervisors) one behaviour can create: one per operation at most
AdapterIds == 1..MaxOps
\* pid of the child of adapter a
PidOf(a) == a

VARIABLES
    gpu_instances,  \* ModelLifecycleManager.gpu_instances, in insertion order
    registry,       \* ProcessRegistry: resource key -> process record
    adapters,       \* every LlamaCppAdapter created, with its child and monitor
    created,        \* number of adapters created so far
    ops,            \* the coroutine running in each slot
    started,        \* number of operations called so far
    last,           \* what the operation that returned in the last step returned
    nraw,           \* normalisation functions: the input ...
    nres,           \* ... and the result of applying them
    gpu_ports,      \* config_manager.llama_cpp.gpu_ports
    port_seen,      \* get_port_for_gpu: the calls made and what they returned
    gpu_detector,   \* the GpuDetector: its threshold and _gpu_model_mapping
    hw_call,        \* the last detection call: its input and what it returned
    log_buffer,     \* LlamaCppAdapter.log_buffer of one supervisor
    child_out,      \* its child: what it prints, and the pipe it prints into
    log_mon,        \* its monitor thread: position and the stop_monitoring event
    lines_read,     \* every line the monitor has taken from the pipe so far
    sup,            \* one LlamaCppAdapter called directly: its fields
    sup_env,        \* its earlier monitor threads and children still around
    sup_call,       \* the call in progress on it, and the number of calls made
    sup_ret,        \* what the call that returned in the last step returned
    recovery        \* the manager's construction: its position, what the
                    \* registry file held, the pids alive, the probe's answers

mgrvars == <<gpu_instances, registry, adapters, created, ops, started, last>>
normvars == <<nraw, nres>>
portvars == <<gpu_ports, port_seen>>
detvars == <<gpu_detector, hw_call>>
logvars == <<log_buffer, child_out, log_mon, lines_read>>
supvars == <<sup, sup_env, sup_call, sup_ret>>
recvars == <<recovery>>
vars == <<mgrvars, normvars, portvars, detvars, logvars, supvars, recvars>>

\* what the steps of each component leave alone
OutsideMgr == <<normvars, portvars, detvars, logvars, supvars, recvars>>
OutsideNorm == <<mgrvars, portvars, detvars, logvars, supvars, recvars>>
OutsidePort == <<mgrvars, normvars, detvars, logvars, supvars, recvars>>
OutsideDet == <<mgrvars, normvars, portvars, logvars, supvars, recvars>>
OutsideLog == <<mgrvars, normvars, portvars, detvars, supvars, recvars>>
OutsideSup == <<mgrvars, normvars, portvars, detvars, logvars, recvars>>
OutsideRec == <<normvars, portvars, detvars, logvars, supvars>>
OutsideLogSup == <<mgrvars, normvars, portvars, detvars, recvars>>

\* ------------------------------------------------------------------------
\* LlamaCppAdapter
\* ------------------------------------------------------------------------
\* LlamaCppAdapter.__init__
FreshAdapter ==
    [status |-> "stopped", proc |-> "none", monitor |-> "none",
     stop_monitoring |-> FALSE, http_client |-> FALSE, restart_count |-> 0]

\* start_server whose except branch forgets status = ERROR
StartServerKeepsStarting(ad, outcome) ==
    IF ad.status \notin {"stopped", "crashed"} THEN [ad |-> ad, raised |-> TRUE]
    ELSE IF outcome # "ok"
        THEN [ad |-> [ad EXCEPT !.status = "starting"], raised |-> TRUE]
    ELSE [ad |-> [ad EXCEPT !.status = "starting", !.proc = "alive",
                            !.monitor = "loop", !.stop_monitoring = FALSE],
          raised |-> FALSE]

\* start_server up to and including monitor_thread.start(); outcome is what
\* the file system and the OS answer: "ok", "nofile" (model artifact missing)
\* or "oserror" (Popen raises)
StartServerSpawn(ad, outcome) ==
    IF ad.status \notin {"stopped", "crashed"} THEN [ad |-> ad, raised |-> TRUE]
    ELSE IF outcome # "ok"
        THEN [ad |-> [ad EXCEPT !.status = "error"], raised |-> TRUE]
    ELSE [ad |-> [ad EXCEPT !.status = "starting", !.proc = "alive",
                            !.monitor = "loop", !.stop_monitoring = FALSE],
          raised |-> FALSE]

\* start_server, under the lock: the status test, then STARTING
StartServerCheck(ad) ==
    IF ad.status \notin {"stopped", "crashed"} THEN [ad |-> ad, raised |-> TRUE]
    ELSE [ad |-> [ad EXCEPT !.status = "starting"], raised |-> FALSE]

\* start_server from the test of the model path to monitor_thread.start();
\* outcome as for StartServerSpawn
StartServerPopen(ad, outcome) ==
    IF outcome # "ok"
        THEN [ad |-> [ad EXCEPT !.status = "error"], raised |-> TRUE]
    ELSE [ad |-> [ad EXCEPT !.proc = "alive", !.monitor = "loop",
                            !.stop_monitoring = FALSE],
          raised |-> FALSE]

\* the rest of start_server: the HTTP client, then status = RUNNING
StartServerFinish(ad) ==
    [ad EXCEPT !.http_client = TRUE, !.status = "running"]

\* a stop_server without the test for STOPPED: it always sets STOPPING
StopServerBeginNoTest(ad) ==
    IF ad.proc = "none"
        THEN [ad |-> [ad EXCEPT !.status = "stopping"], returned |-> TRUE]
    ELSE [ad |-> [ad EXCEPT !.status = "stopping"], returned |-> FALSE]

\* stop_server up to process.terminate(): returned tells whether it has
\* already returned (True) without signalling anything
StopServerBegin(ad) ==
    IF ad.status = "stopped" THEN [ad |-> ad, returned |-> TRUE]
    ELSE IF ad.proc = "none"
        THEN [ad |-> [ad EXCEPT !.status = "stopping"], returned |-> TRUE]
    ELSE [ad |-> [ad EXCEPT !.status = "stopping"], returned |-> FALSE]

\* process.wait() has returned: stop_monitoring.set()
StopServerReaped(ad) == [ad EXCEPT !.stop_monitoring = TRUE]

\* the monitor is joined: the client is closed, the handle dropped, STOPPED
StopServerFinish(ad) ==
    [ad EXCEPT !.http_client = FALSE, !.proc = "none", !.status = "stopped"]

\* terminate/kill or the waits raised: except branch of stop_server
StopServerError(ad) == [ad EXCEPT !.status = "error"]

\* _monitor_process sees the child gone: CRASHED, then _handle_crash (which
\* gives up at once, or sleeps its backoff and returns without relaunching),
\* then the thread ends
MonitorSeesExit(ad) ==
    IF ~RestartOnCrash
        THEN [ad EXCEPT !.status = "crashed", !.monitor = "done"]
    ELSE IF ad.restart_count >= MaxRestartAttempts
        THEN [ad EXCEPT !.status = "error", !.monitor = "done"]
    ELSE [ad EXCEPT !.status = "crashed", !.monitor = "done"]

\* _monitor_process sees the child gone: CRASHED under the lock, then
\* _handle_crash if restart_on_crash, else the thread ends
MonitorSetsCrashed(ad) ==
    [ad EXCEPT !.status = "crashed",
               !.monitor = IF RestartOnCrash THEN "handle" ELSE "done"]

\* _handle_crash: ERROR when the attempts are used up, else the backoff
\* sleep and nothing more
HandleCrashStatus(ad) ==
    IF ad.restart_count >= MaxRestartAttempts THEN "error" ELSE ad.status

\* _handle_crash: wait_time = min(2 ** restart_count, 60)
BackoffCap == 60

BackoffWait(ad) ==
    IF 2 ^ ad.restart_count < BackoffCap THEN 2 ^ ad.restart_count
    ELSE BackoffCap

\* what surrounds the supervisor: monitor threads that a later start has
\* replaced and that are still inside _handle_crash (stale), children left
\* alive by a replaced handle (orphans), the crash-handling rounds performed
\* so far (passes of _handle_crash that did not give up) and the wait of
\* the last one
NoSupEnv == [stale |-> 0, orphans |-> 0, rounds |-> 0, wait |-> 0]

\* _handle_crash: a round is performed unless the attempts are used up
HandleCrashRound(ad, env) ==
    IF ad.restart_count >= MaxRestartAttempts THEN env
    ELSE [env EXCEPT !.rounds = @ + 1, !.wait = BackoffWait(ad)]

\* restart_server after stop_server returned True and the pause: the counter
\* is incremented, ERROR when it exceeds the maximum
RestartServerCount(ad) ==
    [ad EXCEPT !.restart_count = @ + 1,
               !.status = IF ad.restart_count + 1 > MaxRestartAttempts
                              THEN "error" ELSE @]

\* is_healthy before its HTTP request: RUNNING and the child not yet exited
HealthPrecheck(ad) == ad.status = "running" /\ ad.proc = "alive"

\* get_pid: the pid of the process handle, if there is one
GetPid(ad, a) == IF ad.proc = "none" THEN 0 ELSE PidOf(a)

\* an adapter that nothing refers to any more (no instance, no coroutine, no
\* running monitor thread): the object is gone
Collected ==
    [status |-> "gone", proc |-> "none", monitor |-> "none",
     stop_monitoring |-> FALSE, http_client |-> FALSE, restart_count |-> 0]

\* ------------------------------------------------------------------------
\* ProcessRegistry: a key -> record store
\* ------------------------------------------------------------------------
\* a register_process that stores nothing
RegisterProcessNothing(reg, key, pid, model_id, port) == reg

RegisterProcess(reg, key, pid, model_id, port) ==
    [k \in (DOMAIN reg) \cup {key} |->
        IF k = key THEN [pid |-> pid, model_id |-> model_id, port |-> port]
        ELSE reg[k]]

UnregisterProcess(reg, key) == [k \in (DOMAIN reg) \ {key} |-> reg[k]]

EmptyRegistry == [k \in {} |-> [pid |-> 0, model_id |-> "none", port |-> 0]]

\* ------------------------------------------------------------------------
\* ModelLifecycleManager.gpu_instances: a dict, kept in insertion order
\* ------------------------------------------------------------------------
InstKeys == {gpu_instances[i].key : i \in 1..Len(gpu_instances)}

HasInst(key) == key \in InstKeys

InstAt(insts, key) == insts[CHOOSE i \in 1..Len(insts) : insts[i].key = key]

\* d[key] = inst: an existing key keeps its place, a new one goes last
DictSet(insts, inst) ==
    IF \E i \in 1..Len(insts) : insts[i].key = inst.key
        THEN [i \in 1..Len(insts) |->
                 IF insts[i].key = inst.key THEN inst ELSE insts[i]]
    ELSE Append(insts, inst)

\* a del that removes nothing
DictDelNothing(insts, key) == insts

RECURSIVE DictDel(_, _)
DictDel(insts, key) ==
    IF insts = <<>> THEN <<>>
    ELSE IF Head(insts).key = key THEN DictDel(Tail(insts), key)
    ELSE <<Head(insts)>> \o DictDel(Tail(insts), key)

\* the devices of a normalised key
KeyDevices(key) == SeqRange(ParseTable[RawStr(key)].ids)

NoConflict == [found |-> FALSE, overlap |-> {}, owner |-> <<>>, owner_model |-> "none"]

\* a conflict check that compares the keys, not their device sets
CheckSameKeyOnly(insts, key) ==
    IF \E i \in 1..Len(insts) : insts[i].key = key
        THEN [found |-> TRUE, overlap |-> KeyDevices(key), owner |-> key,
              owner_model |-> InstAt(insts, key).model_id]
    ELSE NoConflict

\* ModelLifecycleManager._check_gpu_conflicts: the first instance, in dict
\* order, that shares a device with the request
RECURSIVE CheckGpuConflicts(_, _)
CheckGpuConflicts(insts, key) ==
    IF insts = <<>> THEN NoConflict
    ELSE LET overlap == KeyDevices(key) \cap KeyDevices(Head(insts).key)
         IN  IF overlap # {}
                 THEN [found |-> TRUE, overlap |-> overlap,
                       owner |-> Head(insts).key,
                       owner_model |-> Head(insts).model_id]
             ELSE CheckGpuConflicts(Tail(insts), key)

\* ------------------------------------------------------------------------
\* Coroutines of the event loop
\* ------------------------------------------------------------------------
\* old is switch_model's old_model_id: the model switch found on the key and
\* unloads ("none": it found the key free, or the coroutine is no switch)
IdleOp ==
    [kind |-> "idle", phase |-> "idle", pc |-> "idle", model |-> "none",
     key |-> <<>>, adapter |-> 0, old |-> "none"]

NoView == [state |-> "none", model_id |-> "none", port |-> 0, pid |-> 0]

\* what an operation returned: raw is the spec as it was passed (as it was
\* normalised, once the operation has suspended), view the status snapshot
\* in the response, sup the adapter the operation created or stopped, as it
\* is when the operation returns, and aid its number (0: none, or one that
\* never had a child)
NoLast ==
    [kind |-> "none", model |-> "none", raw |-> RawStr(<<>>), result |-> "none",
     detail |-> NoConflict, view |-> NoView, sup |-> Collected, aid |-> 0]

Result(kind, model, raw, result, detail, view, ad, aid) ==
    [kind |-> kind, model |-> model, raw |-> raw, result |-> result,
     detail |-> detail, view |-> view, sup |-> ad, aid |-> aid]

\* program points inside a stretch of synchronous code: the coroutine holds
\* the event loop and no other coroutine runs
SyncPcs == {"start2", "stopA", "stopB", "unreg", "del"}

LoopFree == last = NoLast /\ \A t \in Slots : ops[t].pc \notin SyncPcs

\* a new call runs in the first free slot
FreeSlot(s) == ops[s] = IdleOp /\ \A t \in Slots : t < s => ops[t] # IdleOp

CanCall(s) == last = NoLast /\ LoopFree /\ FreeSlot(s)

\* the call in slot s counts if it is still running after its first step
Counted(s) ==
    /\ started' = IF ops'[s] = IdleOp THEN started ELSE started + 1
    /\ started' <= MaxOps

\* slot s is idle again / goes on at pc
Ret(s) == [ops EXCEPT ![s] = IdleOp]

At(s, kind, phase, pc, model, key, a) ==
    [ops EXCEPT ![s] = [kind |-> kind, phase |-> phase, pc |-> pc,
                        model |-> model, key |-> key, adapter |-> a,
                        old |-> IF kind = "switch" /\ phase = "unload"
                                    THEN InstAt(gpu_instances, key).model_id
                                ELSE ops[s].old]]

\* adapters an instance, a coroutine or a running monitor thread refers to
Referenced(a, ads, insts, os) ==
    \/ \E i \in 1..Len(insts) : insts[i].adapter = a
    \/ \E t \in Slots : os[t].adapter = a
    \/ ads[a].monitor = "loop"

\* LlamaCppAdapter objects are freed when the last reference goes
Sweep(ads, insts, os) ==
    [a \in AdapterIds |->
        IF ads[a] # FreshAdapter /\ ~Referenced(a, ads, insts, os)
            THEN Collected
        ELSE ads[a]]

\* one step of the manager or of an adapter's thread or child
Step(insts, reg, ads, crt, os, lst) ==
    /\ last = NoLast
    /\ gpu_instances' = insts
    /\ registry' = reg
    /\ created' = crt
    /\ ops' = os
    /\ last' = lst
    /\ adapters' = Sweep(ads, insts, os)
    /\ UNCHANGED OutsideMgr

\* ModelLifecycleManager._get_instance_status / get_gpu_status of one instance
InstanceStatus(inst, ads) ==
    [state |-> ads[inst.adapter].status, model_id |-> inst.model_id,
     port |-> inst.port, pid |-> GetPid(ads[inst.adapter], inst.adapter)]

\* ModelLifecycleManager.get_gpu_status for a normalised key: None ("absent")
\* when the key has no instance
GetGpuStatus(insts, ads, key) ==
    IF \E i \in 1..Len(insts) : insts[i].key = key
        THEN [result |-> "ok", view |-> InstanceStatus(InstAt(insts, key), ads)]
    ELSE [result |-> "absent", view |-> NoView]

\* load_model from its first line to its first suspension: normalise, look
\* the model up, check conflicts, assign the port, create the adapter and
\* call start_server as far as the start of the monitor thread
LoadBegin(s, kind, m, raw) ==
    LET norm == NormTable[raw]
        conflict == CheckGpuConflicts(gpu_instances, norm.key)
        a == created + 1
        Reject(result, detail) ==
            Step(gpu_instances, registry, adapters, created, Ret(s),
                 Result(kind, m, raw, result, detail, NoView, Collected, 0))
    IN  IF ~norm.ok THEN Reject("validation_error", NoConflict)
        ELSE IF ~GetModel(m) THEN Reject("not_found", NoConflict)
        ELSE IF conflict.found THEN Reject("conflict", conflict)
        ELSE \E outcome \in {"ok", "nofile", "oserror"} :
            LET r == StartServerSpawn(FreshAdapter, outcome)
                ads == [adapters EXCEPT ![a] = r.ad]
            IN  IF r.raised
                    THEN Step(gpu_instances, registry, adapters, created, Ret(s),
                              Result(kind, m, raw, "spawn_error", NoConflict,
                                     NoView, r.ad, 0))
                ELSE /\ a \in AdapterIds
                     /\ Step(gpu_instances, registry, ads, a,
                             At(s, kind, "load", "start2", m, norm.key, a), NoLast)

\* unload_model from its first line to process.terminate() in stop_server
UnloadBegin(s, kind, m, raw) ==
    LET norm == NormTable[raw]
        Return(result) ==
            Step(gpu_instances, registry, adapters, created, Ret(s),
                 Result(kind, m, raw, result, NoConflict, NoView, Collected, 0))
    IN  IF ~norm.ok THEN Return("validation_error")
        ELSE IF ~HasInst(norm.key) THEN Return("ok")
        ELSE LET a == InstAt(gpu_instances, norm.key).adapter
                 r == StopServerBegin(adapters[a])
             IN  Step(gpu_instances, registry, [adapters EXCEPT ![a] = r.ad], created,
                      At(s, kind, "unload", IF r.returned THEN "unreg" ELSE "stopA",
                         m, norm.key, a),
                      NoLast)

\* a caller awaits load_model(m, raw)
CallLoad(s, m, raw) ==
    /\ CanCall(s)
    /\ LoadBegin(s, "load", m, raw)
    /\ Counted(s)

\* a caller awaits unload_model(raw)
CallUnload(s, raw) ==
    /\ CanCall(s)
    /\ UnloadBegin(s, "unload", "none", raw)
    /\ Counted(s)

\* a comparison that never finds the model already loaded
SameModelNever(inst, m) == FALSE

\* switch_model: old_model_id == new_model_id
SameModel(inst, m) == inst.model_id = m

\* a caller awaits switch_model(m, raw)
CallSwitch(s, m, raw) ==
    LET norm == NormTable[raw]
        Return(result, view) ==
            Step(gpu_instances, registry, adapters, created, Ret(s),
                 Result("switch", m, raw, result, NoConflict, view, Collected, 0))
    IN  /\ CanCall(s)
        /\ IF ~norm.ok THEN Return("validation_error", NoView)
           ELSE IF ~GetModel(m) THEN Return("not_found", NoView)
           ELSE IF HasInst(norm.key) THEN
               IF SameModel(InstAt(gpu_instances, norm.key), m)
                   THEN Return("ok", InstanceStatus(InstAt(gpu_instances, norm.key),
                                                    adapters))
               ELSE UnloadBegin(s, "switch", m, RawStr(norm.key))
           ELSE LoadBegin(s, "switch", m, RawStr(norm.key))
        /\ Counted(s)

\* a caller awaits get_gpu_status(raw): no suspension inside
CallStatus(s, raw) ==
    LET norm == NormTable[raw]
        Return(result, view) ==
            Step(gpu_instances, registry, adapters, created, Ret(s),
                 Result("status", "none", raw, result, NoConflict, view, Collected, 0))
    IN  /\ CanCall(s)
        /\ IF ~norm.ok THEN Return("validation_error", NoView)
           ELSE Return(GetGpuStatus(gpu_instances, adapters, norm.key).result,
                       GetGpuStatus(gpu_instances, adapters, norm.key).view)
        /\ UNCHANGED started

\* start_server returns: the coroutine enters _wait_for_ready
StartFinish(s) ==
    LET o == ops[s]
    IN  /\ o.pc = "start2"
        /\ Step(gpu_instances, registry,
                [adapters EXCEPT ![o.adapter] = StartServerFinish(@)], created,
                At(s, o.kind, o.phase, "wait", o.model, o.key, o.adapter), NoLast)
        /\ UNCHANGED started

\* _wait_for_ready returned False: load_model calls adapter.stop_server(),
\* whose result it does not read, and raises
GiveUp(s) ==
    LET o == ops[s]
        r == StopServerBegin(adapters[o.adapter])
        ads == [adapters EXCEPT ![o.adapter] = r.ad]
    IN  /\ IF r.returned
               THEN Step(gpu_instances, registry, ads, created, Ret(s),
                         Result(o.kind, o.model, RawStr(o.key), "not_ready",
                                NoConflict, NoView, r.ad, o.adapter))
           ELSE Step(gpu_instances, registry, ads, created,
                     At(s, o.kind, o.phase, "stopA", o.model, o.key, o.adapter),
                     NoLast)
        /\ UNCHANGED started

\* a _wait_for_ready whose loop has no timeout
WaitNeverTimesOut(s) == FALSE /\ UNCHANGED vars

\* _wait_for_ready: the load timeout has elapsed
WaitTimeout(s) ==
    /\ LoopFree /\ ops[s].pc = "wait"
    /\ GiveUp(s)

\* _wait_for_ready: the child is seen to have exited
WaitSeesExit(s) ==
    /\ LoopFree /\ ops[s].pc = "wait"
    /\ adapters[ops[s].adapter].proc = "exited"
    /\ GiveUp(s)

\* _wait_for_ready -> is_healthy: the HTTP probe is sent and awaited
WaitProbe(s) ==
    LET o == ops[s]
    IN  /\ LoopFree /\ o.pc = "wait"
        /\ HealthPrecheck(adapters[o.adapter])
        /\ Step(gpu_instances, registry, adapters, created,
                At(s, o.kind, o.phase, "probe", o.model, o.key, o.adapter), NoLast)
        /\ UNCHANGED started

\* the probe is refused, times out or answers another code: sleep, loop
ProbeFails(s) ==
    LET o == ops[s]
    IN  /\ LoopFree /\ o.pc = "probe"
        /\ Step(gpu_instances, registry, adapters, created,
                At(s, o.kind, o.phase, "wait", o.model, o.key, o.adapter), NoLast)
        /\ UNCHANGED started

\* load_model that does not store the instance
RegisterNothing(insts, inst) == insts

\* load_model after the wait: gpu_instances[key] = instance
RegisterInstance(insts, inst) == DictSet(insts, inst)

\* the coroutine resumes with the probe's 200 answer (the child may have
\* exited since it sent it): the rest of load_model runs without suspension:
\* store the instance, write the registry record, return success
ProbeSucceeds(s) ==
    LET o == ops[s]
        inst == [key |-> o.key, port |-> PortTable[RawStr(o.key)],
                 adapter |-> o.adapter, model_id |-> o.model]
        pid == GetPid(adapters[o.adapter], o.adapter)
    IN  /\ LoopFree /\ o.pc = "probe"
        /\ Step(RegisterInstance(gpu_instances, inst),
                IF pid # 0
                    THEN RegisterProcess(registry, o.key, pid, o.model, inst.port)
                ELSE registry,
                adapters, created, Ret(s),
                Result(o.kind, o.model, RawStr(o.key), "ok", NoConflict,
                       InstanceStatus(inst, adapters), adapters[o.adapter],
                       o.adapter))
        /\ UNCHANGED started

\* stop_server: process.wait() returns because the child has exited (of the
\* SIGTERM, of the SIGKILL that follows the grace period, or before either)
StopReap(s) ==
    LET o == ops[s]
    IN  /\ o.pc = "stopA"
        /\ adapters[o.adapter].proc = "exited"
        /\ Step(gpu_instances, registry,
                [adapters EXCEPT ![o.adapter] = StopServerReaped(@)], created,
                At(s, o.kind, o.phase, "stopB", o.model, o.key, o.adapter), NoLast)
        /\ UNCHANGED started

\* stop_server: the child outlives kill() and the last wait raises: ERROR,
\* return False.  unload_model raises; load_model goes on to raise its own
\* readiness error
StopFail(s) ==
    LET o == ops[s]
        ad == StopServerError(adapters[o.adapter])
    IN  /\ o.pc = "stopA"
        /\ adapters[o.adapter].proc = "alive"
        /\ Step(gpu_instances, registry, [adapters EXCEPT ![o.adapter] = ad],
                created, Ret(s),
                Result(o.kind, o.model, RawStr(o.key),
                       IF o.phase = "load" THEN "not_ready" ELSE "stop_failed",
                       NoConflict, NoView, ad, o.adapter))
        /\ UNCHANGED started

\* stop_server: the monitor thread is joined, stop_server returns True
StopFinish(s) ==
    LET o == ops[s]
        ad == StopServerFinish(adapters[o.adapter])
        ads == [adapters EXCEPT ![o.adapter] = ad]
    IN  /\ o.pc = "stopB"
        /\ adapters[o.adapter].monitor \in {"none", "done"}
        /\ IF o.phase = "load"
               THEN Step(gpu_instances, registry, ads, created, Ret(s),
                         Result(o.kind, o.model, RawStr(o.key), "not_ready",
                                NoConflict, NoView, ad, o.adapter))
           ELSE Step(gpu_instances, registry, ads, created,
                     At(s, o.kind, o.phase, "unreg", o.model, o.key, o.adapter),
                     NoLast)
        /\ UNCHANGED started

\* unload_model that goes on to the del without unregistering
UnregisterSkipped(s) ==
    LET o == ops[s]
    IN  /\ o.pc = "unreg"
        /\ Step(gpu_instances, registry, adapters, created,
                At(s, o.kind, o.phase, "del", o.model, o.key, o.adapter), NoLast)
        /\ UNCHANGED started

\* unload_model: process_registry.unregister_process(key)
Unregister(s) ==
    LET o == ops[s]
    IN  /\ o.pc = "unreg"
        /\ Step(gpu_instances, UnregisterProcess(registry, o.key), adapters, created,
                At(s, o.kind, o.phase, "del", o.model, o.key, o.adapter), NoLast)
        /\ UNCHANGED started

\* unload_model: del gpu_instances[key], return success; inside
\* switch_model the coroutine then sleeps one second
DeleteInstance(s) ==
    LET o == ops[s]
    IN  /\ o.pc = "del"
        /\ IF o.kind = "unload"
               THEN Step(DictDel(gpu_instances, o.key), registry, adapters, created,
                         Ret(s),
                         Result(o.kind, o.model, RawStr(o.key), "ok", NoConflict,
                                NoView, adapters[o.adapter], o.adapter))
           ELSE Step(DictDel(gpu_instances, o.key), registry, adapters, created,
                     At(s, o.kind, "load", "pause", o.model, o.key, 0), NoLast)
        /\ UNCHANGED started

\* switch_model after its pause: load_model(new_model_id, key)
SwitchResume(s) ==
    /\ LoopFree /\ ops[s].pc = "pause"
    /\ LoadBegin(s, "switch", ops[s].model, RawStr(ops[s].key))
    /\ UNCHANGED started

\* ------------------------------------------------------------------------
\* The monitor threads and the children
\* ------------------------------------------------------------------------
EnvStep(ads) == Step(gpu_instances, registry, ads, created, ops, NoLast) /\ UNCHANGED started

\* the child of adapter a exits: by itself, or of a signal it was sent
ChildExits(a) ==
    /\ adapters[a].proc = "alive"
    /\ EnvStep([adapters EXCEPT ![a].proc = "exited"])

\* _monitor_process: stop_monitoring is set (or the handle is gone): leave
MonitorLeaves(a) ==
    /\ adapters[a].monitor = "loop"
    /\ adapters[a].stop_monitoring \/ adapters[a].proc = "none"
    /\ EnvStep([adapters EXCEPT ![a].monitor = "done"])

\* _monitor_process: poll() shows the child gone
MonitorCrash(a) ==
    /\ adapters[a].monitor = "loop"
    /\ ~adapters[a].stop_monitoring
    /\ adapters[a].proc = "exited"
    /\ EnvStep([adapters EXCEPT ![a] = MonitorSeesExit(@)])

\* the caller has the response of the operation that just returned
Observe ==
    /\ last # NoLast
    /\ last' = NoLast
    /\ UNCHANGED <<gpu_instances, registry, adapters, created, ops, started>>
    /\ UNCHANGED OutsideMgr

\* ------------------------------------------------------------------------
\* GpuDetector
\* ------------------------------------------------------------------------
\* GpuDetectionConfig defaults
DefaultThreshold == 30
DetectionEnabled == TRUE

\* Python values of an Optional type: None, a str, a list
PyNone == [py |-> "None"]
PyStr(x) == [py |-> "str", val |-> x]
PyList(x) == [py |-> "list", val |-> x]

\* the truth value of an Optional[str] in "if model_name:": None and the
\* empty string are false
Truthy(v) == v.py = "str" /\ v.val # ""

\* a dict from keys to strings.  A key is a Python int or a Python str
\* (RawInt, RawStr): the int 0 and the str "0" are different keys
EmptyMapping == [k \in {} |-> ""]

DictPut(d, key, value) ==
    [k \in (DOMAIN d) \cup {key} |-> IF k = key THEN value ELSE d[k]]

DictRemove(d, key) == [k \in (DOMAIN d) \ {key} |-> d[k]]

\* d.get(key)
DictGet(d, key) == IF key \in DOMAIN d THEN PyStr(d[key]) ELSE PyNone

\* GpuDetector.__init__
NewDetector(threshold) ==
    [memory_threshold_mb |-> threshold, mapping |-> EmptyMapping]

\* GpuDetector.set_model_mapping
SetModelMapping(det, gpu_id, model_name) ==
    [det EXCEPT !.mapping = DictPut(@, gpu_id, model_name)]

\* GpuDetector.remove_model_mapping / clear_model_mapping
RemoveModelMapping(det, gpu_id) ==
    [det EXCEPT !.mapping = DictRemove(@, gpu_id)]

\* GpuDetector.get_model_for_gpu
GetModelForGpu(det, gpu_id) == DictGet(det.mapping, gpu_id)

\* detect_gpus: [p for p in process_info_list if p.gpu_index == gpu.index],
\* None when there is none
ProcessesOf(procs, index) ==
    IF SelectSeq(procs, LAMBDA p : p.gpu_index = index) = <<>> THEN PyNone
    ELSE PyList(SelectSeq(procs, LAMBDA p : p.gpu_index = index))

GpuStatus(gpu, state, model_name, process_info, select_enabled) ==
    [index |-> gpu.index, state |-> state, model_name |-> model_name,
     process_info |-> process_info, select_enabled |-> select_enabled,
     memory_used |-> gpu.memory_used, memory_total |-> gpu.memory_total]

\* detect_gpus, the body of its loop: the status of one parsed device.  The
\* mapping is looked up under the device's integer index
ClassifyGpu(det, gpu, procs) ==
    IF gpu.memory_used > det.memory_threshold_mb
        THEN IF Truthy(GetModelForGpu(det, RawInt(gpu.index)))
                 THEN GpuStatus(gpu, "model_loaded",
                                GetModelForGpu(det, RawInt(gpu.index)),
                                PyNone, TRUE)
             ELSE GpuStatus(gpu, "occupied_by_others",
                            PyStr("Occupied by someone else"),
                            ProcessesOf(procs, gpu.index), FALSE)
    ELSE GpuStatus(gpu, "idle", GetModelForGpu(det, RawInt(gpu.index)),
                   PyNone, TRUE)

\* GpuDetector._get_cpu_fallback
CpuFallback ==
    <<[index |-> 0 - 1, state |-> "idle", model_name |-> PyNone,
       process_info |-> PyNone, select_enabled |-> TRUE,
       memory_used |-> 0, memory_total |-> 0]>>

\* a detect_gpus without its except branches
DetectGpusPropagates(det, hw) ==
    IF hw.outcome # "ok" THEN [raised |-> TRUE, gpus |-> <<>>]
    ELSE IF hw.gpus = <<>> THEN [raised |-> FALSE, gpus |-> CpuFallback]
    ELSE [raised |-> FALSE,
          gpus |-> [k \in 1..Len(hw.gpus) |->
                       ClassifyGpu(det, hw.gpus[k], hw.procs)]]

\* GpuDetector.detect_gpus.  hw is what the monitoring command does now:
\* outcome "ok" with the device and process lists parsed from its output, or
\* "not_found", "nonzero", "timeout" (subprocess.run raises, _run_nvidia_smi
\* turns it into RuntimeError), "mock_unreadable" (RuntimeError of
\* _get_mock_output) or "oserror" (any other exception)
DetectGpus(det, hw) ==
    IF hw.outcome # "ok" THEN [raised |-> FALSE, gpus |-> CpuFallback]
    ELSE IF hw.gpus = <<>> THEN [raised |-> FALSE, gpus |-> CpuFallback]
    ELSE [raised |-> FALSE,
          gpus |-> [k \in 1..Len(hw.gpus) |->
                       ClassifyGpu(det, hw.gpus[k], hw.procs)]]

\* no detection call has been made
NoHwCall ==
    [call |-> "none",
     input |-> [outcome |-> "none", gpus |-> <<>>, procs |-> <<>>],
     raised |-> FALSE, gpus |-> <<>>, gpu_count |-> 0,
     detection_enabled |-> FALSE]

\* ModelConfig.name of the configured models
ModelName(m) == IF m = "m1" THEN "Model One" ELSE "Model Two"

\* detect_gpu_hardware: set_model_mapping(gpu_id, instance.model_config.name)
\* for every item of gpu_instances; gpu_id is the instance's key, a str
RECURSIVE MapInstances(_, _)
MapInstances(det, insts) ==
    IF insts = <<>> THEN det
    ELSE MapInstances(SetModelMapping(det, RawStr(Head(insts).key),
                                      ModelName(Head(insts).model_id)),
                      Tail(insts))

\* AllGpuStatusResponse: its required fields (each declared Field(...)), and
\* the keyword arguments detect_gpu_hardware constructs it with
AllGpuStatusRequired == {"gpus", "gpu_count", "detection_enabled", "mock_mode"}
SnapshotKeywords == {"gpus", "gpu_count", "detection_enabled"}

\* pydantic BaseModel.__init__: a missing required field is a
\* ValidationError
ModelValidates(required, given) == required \subseteq given

\* len([g for g in detected_gpus if g.index >= 0])
GpuCount(gpus) == Cardinality({k \in 1..Len(gpus) : gpus[k].index >= 0})

\* ------------------------------------------------------------------------
\* LlamaCppAdapter: the log buffer and the child's output
\* ------------------------------------------------------------------------
\* log_buffer = deque(maxlen=300)
LogCapacity == 300

\* an append that refuses the new line when the buffer is full
DequeAppendKeepsOldest(buf, x) ==
    IF Len(buf) >= LogCapacity THEN buf ELSE Append(buf, x)

\* deque.append with maxlen: a full deque discards its leftmost item
DequeAppend(buf, x) ==
    IF Len(buf) >= LogCapacity THEN Append(Tail(buf), x) ELSE Append(buf, x)

\* appending several lines, one after the other
RECURSIVE DequeExtend(_, _)
DequeExtend(buf, xs) ==
    IF xs = <<>> THEN buf ELSE DequeExtend(DequeAppend(buf, Head(xs)), Tail(xs))

\* list(d)[-n:] for n > 0
LastN(s, n) == IF Len(s) <= n THEN s ELSE SubSeq(s, Len(s) - n + 1, Len(s))

\* where the first line of a text stream ends: at its first newline, or at
\* the end of the data when there is none
LineEnd(s) ==
    IF \E k \in 1..Len(s) : s[k] = "\n"
        THEN CHOOSE k \in 1..Len(s) :
                 s[k] = "\n" /\ \A j \in 1..(k - 1) : s[j] # "\n"
    ELSE Len(s)

\* stdout.readline(): the line with its newline, and what stays in the pipe
Readline(s) ==
    [line |-> SubSeq(s, 1, LineEnd(s)), rest |-> SubSeq(s, LineEnd(s) + 1, Len(s))]

\* the content of a line returned by readline, without its line terminator
Chomp(line) ==
    IF line # <<>> /\ line[Len(line)] = "\n"
        THEN SubSeq(line, 1, Len(line) - 1)
    ELSE line

\* the lines of a text read in one piece: split("\n") gives one more field,
\* empty, when the text ends with a newline
LinesOf(text) ==
    IF text = <<>> THEN <<>>
    ELSE IF text[Len(text)] = "\n"
        THEN SubSeq(Split(text, "\n"), 1, Len(Split(text, "\n")) - 1)
    ELSE Split(text, "\n")

\* the monitor loop's read: line = readline(); if line: append(line.strip())
LoopAppend(buf, line) == IF line = <<>> THEN buf ELSE DequeAppend(buf, Strip(line))

\* the fields of the remaining output that the monitor appends after the
\* child's exit: each stripped, those left empty skipped
NonBlank(line) == Strip(line) # <<>>

Stripped(lines) == [k \in 1..Len(lines) |-> Strip(lines[k])]

\* a monitor that writes CRASHED without flushing what the child left
DrainAppendNothing(buf, text) == buf

DrainAppend(buf, text) ==
    IF text = <<>> THEN buf
    ELSE DequeExtend(buf, Stripped(SelectSeq(Split(text, "\n"), NonBlank)))

\* a line taken from the pipe: its content, and whether it was read after
\* the child's exit
LineRead(text, drained) == [text |-> text, drained |-> drained]

Drained(lines) == [k \in 1..Len(lines) |-> LineRead(lines[k], TRUE)]

\* no child was ever started
NoChildOut == [script |-> "none", written |-> 0, alive |-> FALSE, pipe |-> <<>>]

\* ------------------------------------------------------------------------
\* The manager: initial state and next-state relation
\* ------------------------------------------------------------------------
\* ModelLifecycleManager.__init__ with an empty registry file
NoRecovery ==
    [pc |-> "done", stored |-> EmptyRegistry, alive |-> {},
     results |-> [k \in {} |-> FALSE], todo |-> {}]

MgrInit ==
    /\ recovery = NoRecovery
    /\ gpu_instances = <<>>
    /\ registry = EmptyRegistry
    /\ adapters = [a \in AdapterIds |-> FreshAdapter]
    /\ created = 0
    /\ ops = [s \in Slots |-> IdleOp]
    /\ started = 0
    /\ last = NoLast

\* no normalisation has been applied yet
Unset == [ok |-> FALSE, key |-> <<>>, err |-> "unset"]

\* the normalisation functions have not been called
NormIdle ==
    /\ nraw = RawStr(<<>>)
    /\ nres = Unset

\* the default port configuration, get_port_for_gpu observed by no one
PortIdle ==
    /\ gpu_ports = DefaultGpuPorts
    /\ port_seen = {}

\* the manager's detector as constructed, no detection call made
DetIdle ==
    /\ gpu_detector = NewDetector(DefaultThreshold)
    /\ hw_call = NoHwCall

\* a supervisor that has printed nothing: empty buffer, no child output read
LogIdle ==
    /\ log_buffer = <<>>
    /\ child_out = NoChildOut
    /\ log_mon = [pc |-> "done", stop_monitoring |-> FALSE]
    /\ lines_read = <<>>

\* the caller's thread: the call in progress (op, its position pc, the
\* supervisor as the call found it) and the number of calls made so far
SupCall(op, pc, calls, before) ==
    [op |-> op, pc |-> pc, calls |-> calls, before |-> before]

\* no call has just returned
NoSupRet == [op |-> "none", result |-> "none", before |-> FreshAdapter]

\* a supervisor as constructed, never called
SupIdle ==
    /\ sup = FreshAdapter
    /\ sup_env = NoSupEnv
    /\ sup_call = SupCall("none", "idle", 0, FreshAdapter)
    /\ sup_ret = NoSupRet

Init ==
    /\ MgrInit
    /\ NormIdle
    /\ PortIdle
    /\ DetIdle
    /\ LogIdle
    /\ SupIdle

Next ==
    \/ \E s \in Slots, m \in ModelIds, raw \in OpSpecs : CallLoad(s, m, raw)
    \/ \E s \in Slots, raw \in OpSpecs : CallUnload(s, raw)
    \/ \E s \in Slots, m \in ModelIds, raw \in OpSpecs : CallSwitch(s, m, raw)
    \/ \E s \in Slots, raw \in OpSpecs : CallStatus(s, raw)
    \/ \E s \in Slots : StartFinish(s)
    \/ \E s \in Slots : WaitTimeout(s)
    \/ \E s \in Slots : WaitSeesExit(s)
    \/ \E s \in Slots : WaitProbe(s)
    \/ \E s \in Slots : ProbeFails(s)
    \/ \E s \in Slots : ProbeSucceeds(s)
    \/ \E s \in Slots : StopReap(s)
    \/ \E s \in Slots : StopFail(s)
    \/ \E s \in Slots : StopFinish(s)
    \/ \E s \in Slots : Unregister(s)
    \/ \E s \in Slots : DeleteInstance(s)
    \/ \E s \in Slots : SwitchResume(s)
    \/ \E a \in AdapterIds : ChildExits(a)
    \/ \E a \in AdapterIds : MonitorLeaves(a)
    \/ \E a \in AdapterIds : MonitorCrash(a)
    \/ Observe

Spec == Init /\ [][Next]_vars

\* scheduling: the event loop runs its ready coroutines in turn, so that one
\* that is ready again and again is run (strong fairness: it is not ready
\* while another coroutine holds the loop); the HTTP probe answers or times
\* out after 5 s; the 60 s of _wait_for_ready elapse however often the probe
\* is retried; the waits inside stop_server end (the child is reaped or the
\* wait raises); a coroutine that holds the loop runs on to its next await
\* or return (unload_model after stop_server, switch_model after its sleep);
\* the monitor threads run; the caller takes the response
LoopFairness ==
    /\ \A s \in Slots :
           /\ WF_vars(StartFinish(s))
           /\ SF_vars(WaitTimeout(s))
           /\ SF_vars(ProbeFails(s) \/ ProbeSucceeds(s))
           /\ WF_vars(StopReap(s) \/ StopFail(s))
           /\ WF_vars(StopFinish(s))
           /\ WF_vars(Unregister(s))
           /\ WF_vars(DeleteInstance(s))
           /\ WF_vars(SwitchResume(s))
    /\ \A a \in AdapterIds : WF_vars(MonitorLeaves(a) \/ MonitorCrash(a))
    /\ WF_vars(Observe)

\* the callers of the fair specification: the valid resource specs and the
\* configured models (a call rejected for its arguments returns at once)
FairSpecs == {RawInt(0), RawStr(<<"1">>), RawStr(StrBoth)}

NextFair ==
    \/ \E s \in Slots, m \in Models, raw \in FairSpecs : CallLoad(s, m, raw)
    \/ \E s \in Slots, raw \in FairSpecs : CallUnload(s, raw)
    \/ \E s \in Slots, m \in Models, raw \in FairSpecs : CallSwitch(s, m, raw)
    \/ \E s \in Slots, raw \in FairSpecs : CallStatus(s, raw)
    \/ \E s \in Slots : StartFinish(s)
    \/ \E s \in Slots : WaitTimeout(s)
    \/ \E s \in Slots : WaitSeesExit(s)
    \/ \E s \in Slots : WaitProbe(s)
    \/ \E s \in Slots : ProbeFails(s)
    \/ \E s \in Slots : ProbeSucceeds(s)
    \/ \E s \in Slots : StopReap(s)
    \/ \E s \in Slots : StopFail(s)
    \/ \E s \in Slots : StopFinish(s)
    \/ \E s \in Slots : Unregister(s)
    \/ \E s \in Slots : DeleteInstance(s)
    \/ \E s \in Slots : SwitchResume(s)
    \/ \E a \in AdapterIds : ChildExits(a)
    \/ \E a \in AdapterIds : MonitorLeaves(a)
    \/ \E a \in AdapterIds : MonitorCrash(a)
    \/ Observe

SpecFair == Init /\ [][NextFair]_vars /\ LoopFairness

\* ------------------------------------------------------------------------
\* The normalisation functions on their own: _normalize_gpu_id applied to
\* every spec of a bounded set, and again to its own result
\* ------------------------------------------------------------------------
\* characters of the enumerated strings
NormChars == {"0", "1", "7", "8", ",", " ", "-", "x"}

\* every string over NormChars of at most MaxLen characters, the literal
\* "both", and the integers around the valid range
NormInputs ==
    {RawStr(s) : s \in UNION {[1..n -> NormChars] : n \in 0..MaxLen}}
        \cup {RawStr(StrBoth)}
        \cup {RawInt(i) : i \in (0 - 1)..(MaxGpuIndex + 3)}

InitNorm ==
    /\ MgrInit
    /\ nraw \in NormInputs
    /\ nres = Unset
    /\ PortIdle
    /\ DetIdle
    /\ LogIdle
    /\ SupIdle

\* _normalize_gpu_id(nraw)
Normalize ==
    /\ nres = Unset
    /\ nres' = NormalizeGpuId(nraw)
    /\ UNCHANGED <<nraw, OutsideNorm>>

\* _normalize_gpu_id applied to the key it returned (what switch_model does
\* when it passes its normalised key on to unload_model and load_model)
Renormalize ==
    /\ nres.ok
    /\ nraw # RawStr(nres.key)
    /\ nraw' = RawStr(nres.key)
    /\ nres' = NormalizeGpuId(RawStr(nres.key))
    /\ UNCHANGED OutsideNorm

NextNorm == Normalize \/ Renormalize

SpecNorm == InitNorm /\ [][NextNorm]_vars

\* ------------------------------------------------------------------------
\* Port assignment on its own: get_port_for_gpu called with valid specs, in
\* any order and any number of times, under a port configuration
\* ------------------------------------------------------------------------
\* gpu_ports as configured: the defaults, or other ports for devices 0 and 1
PortConfigs == {DefaultGpuPorts, [gpu0 |-> 9081, gpu1 |-> 9088]}

\* valid resource specs get_port_for_gpu is called with
PortSpecs ==
    { RawInt(0), RawInt(2),
      RawStr(<<"1">>),
      RawStr(<<"1", ",", "0">>),
      RawStr(StrBoth),
      RawStr(<<"0", ",", "2">>),
      RawStr(<<"2", ",", "1">>),
      RawStr(<<"3", ",", "2">>),
      RawStr(<<"7">>) }

InitPort ==
    /\ MgrInit
    /\ NormIdle
    /\ gpu_ports \in PortConfigs
    /\ port_seen = {}
    /\ DetIdle
    /\ LogIdle
    /\ SupIdle

\* a caller calls get_port_for_gpu(raw) and keeps what it returned
CallGetPort(raw) ==
    /\ port_seen' = port_seen \cup
           {[raw |-> raw,
             port |-> ConfiguredPort(gpu_ports, ValidateAndParse(raw).ids[1])]}
    /\ UNCHANGED <<gpu_ports, OutsidePort>>

NextPort == \E raw \in PortSpecs : CallGetPort(raw)

SpecPort == InitPort /\ [][NextPort]_vars

\* ------------------------------------------------------------------------
\* The detector on its own: a GpuDetector whose mapping is set and removed
\* through its methods and whose detect_gpus is called on what the
\* monitoring command answers
\* ------------------------------------------------------------------------
\* thresholds the detector is constructed with
DetThresholds == {1, DefaultThreshold}

\* memory_used readings, on both sides of every threshold
MemLevels == {0, 1, 2, DefaultThreshold, DefaultThreshold + 1}

\* a parsed device (GpuInfo) and a parsed process row (GpuProcessInfo)
GpuInfo(index, used) ==
    [index |-> index, memory_used |-> used, memory_total |-> 24576]

GpuProcessInfo(index, pid) ==
    [gpu_index |-> index, pid |-> pid, process_name |-> "python",
     used_memory |-> 256]

\* results of parse_gpu_info: no device, device 0, devices 0 and 1
HwGpuLists ==
    {<<>>} \cup {<<GpuInfo(0, u)>> : u \in MemLevels}
        \cup {<<GpuInfo(0, u), GpuInfo(1, v)>> : u, v \in MemLevels}

\* results of parse_gpu_processes
HwProcLists ==
    { <<>>,
      <<GpuProcessInfo(0, 100)>>,
      <<GpuProcessInfo(1, 200)>>,
      <<GpuProcessInfo(0, 100), GpuProcessInfo(1, 200)>>,
      <<GpuProcessInfo(0, 100), GpuProcessInfo(1, 200), GpuProcessInfo(0, 101)>> }

HwFailures == {"not_found", "nonzero", "timeout", "mock_unreadable", "oserror"}

\* what one run of the monitoring command and the two parsers can give
HwInputs ==
    {[outcome |-> o, gpus |-> <<>>, procs |-> <<>>] : o \in HwFailures}
        \cup {[outcome |-> "ok", gpus |-> g, procs |-> p] :
                  g \in HwGpuLists, p \in HwProcLists}

\* keys and names set_model_mapping is called with
MappingKeys == {RawInt(0), RawInt(1), RawStr(<<"0">>)}
MappingNames == {"", "Model One"}

InitDet ==
    /\ MgrInit
    /\ NormIdle
    /\ PortIdle
    /\ gpu_detector \in {NewDetector(t) : t \in DetThresholds}
    /\ hw_call = NoHwCall
    /\ LogIdle
    /\ SupIdle

\* detector.set_model_mapping(key, name)
CallSetModelMapping(key, name) ==
    /\ hw_call = NoHwCall
    /\ gpu_detector' = SetModelMapping(gpu_detector, key, name)
    /\ UNCHANGED <<hw_call, OutsideDet>>

\* detector.remove_model_mapping(key)
CallRemoveModelMapping(key) ==
    /\ hw_call = NoHwCall
    /\ key \in DOMAIN gpu_detector.mapping
    /\ gpu_detector' = RemoveModelMapping(gpu_detector, key)
    /\ UNCHANGED <<hw_call, OutsideDet>>

\* detector.detect_gpus()
CallDetectGpus(hw) ==
    /\ hw_call = NoHwCall
    /\ hw_call' = [call |-> "detect_gpus", input |-> hw,
                   raised |-> DetectGpus(gpu_detector, hw).raised,
                   gpus |-> DetectGpus(gpu_detector, hw).gpus,
                   gpu_count |-> 0, detection_enabled |-> FALSE]
    /\ UNCHANGED <<gpu_detector, OutsideDet>>

\* the caller has what the detection call returned
ObserveHw ==
    /\ hw_call # NoHwCall
    /\ hw_call' = NoHwCall
    /\ UNCHANGED <<gpu_detector, OutsideDet>>

NextDet ==
    \/ \E key \in MappingKeys, name \in MappingNames : CallSetModelMapping(key, name)
    \/ \E key \in MappingKeys : CallRemoveModelMapping(key)
    \/ \E hw \in HwInputs : CallDetectGpus(hw)
    \/ ObserveHw

SpecDet == InitDet /\ [][NextDet]_vars

\* ------------------------------------------------------------------------
\* The manager's hardware snapshot: detect_gpu_hardware called in a manager
\* that has loaded some models
\* ------------------------------------------------------------------------
\* the instance load_model stores for a model on a key
LoadedInstance(key, m, a) ==
    [key |-> key, port |-> PortTable[RawStr(key)], adapter |-> a, model_id |-> m]

\* instance maps after zero, one or two successful loads
HwInstanceMaps ==
    { <<>>,
      <<LoadedInstance(<<"0">>, "m1", 1)>>,
      <<LoadedInstance(<<"1">>, "m2", 1)>>,
      <<LoadedInstance(<<"0", ",", "1">>, "m1", 1)>>,
      <<LoadedInstance(<<"0">>, "m1", 1), LoadedInstance(<<"1">>, "m2", 2)>>,
      <<LoadedInstance(<<"1">>, "m1", 1), LoadedInstance(<<"0">>, "m2", 2)>> }

\* the manager after the loads of one of these maps have returned, every
\* child running
InitHw ==
    /\ gpu_instances \in HwInstanceMaps
    /\ registry = [k \in InstKeys |->
                      [pid |-> PidOf(InstAt(gpu_instances, k).adapter),
                       model_id |-> InstAt(gpu_instances, k).model_id,
                       port |-> InstAt(gpu_instances, k).port]]
    /\ adapters = [a \in AdapterIds |->
                      IF a <= Len(gpu_instances)
                          THEN StartServerFinish(StartServerSpawn(FreshAdapter, "ok").ad)
                      ELSE FreshAdapter]
    /\ created = Len(gpu_instances)
    /\ ops = [s \in Slots |-> IdleOp]
    /\ started = Len(gpu_instances)
    /\ last = NoLast
    /\ recovery = NoRecovery
    /\ NormIdle
    /\ PortIdle
    /\ DetIdle
    /\ LogIdle
    /\ SupIdle

\* a caller awaits detect_gpu_hardware(): the mappings are set, the detector
\* runs, the per-device responses are built, then AllGpuStatusResponse is
\* constructed.  gpus holds the device records built, raised tells whether
\* the call raised instead of returning them
DetectGpuHardware(hw) ==
    /\ hw_call = NoHwCall
    /\ gpu_detector' = MapInstances(gpu_detector, gpu_instances)
    /\ hw_call' =
           [call |-> "detect_gpu_hardware",
            input |-> hw,
            raised |-> ~ModelValidates(AllGpuStatusRequired, SnapshotKeywords),
            gpus |-> DetectGpus(MapInstances(gpu_detector, gpu_instances), hw).gpus,
            gpu_count |->
                GpuCount(DetectGpus(MapInstances(gpu_detector, gpu_instances), hw).gpus),
            detection_enabled |-> DetectionEnabled]
    /\ UNCHANGED OutsideDet

NextHw ==
    \/ \E hw \in HwInputs : DetectGpuHardware(hw)
    \/ ObserveHw

SpecHw == InitHw /\ [][NextHw]_vars

\* ------------------------------------------------------------------------
\* The per-key status: get_gpu_status called in a manager that has loaded
\* some models, whose children run or have exited, on what the monitoring
\* command answers at the time of the call
\* ------------------------------------------------------------------------
\* _query_gpu_memory: next((g for g in gpu_statuses if g.index == gid), None)
\* for each device of the key, the readings of those found summed up
RECURSIVE SumMemory(_, _)
SumMemory(gpus, ids) ==
    IF ids = <<>> THEN [memory_used |-> 0, memory_total |-> 0]
    ELSE IF \E k \in 1..Len(gpus) : gpus[k].index = Head(ids)
        THEN LET k == CHOOSE k \in 1..Len(gpus) :
                          /\ gpus[k].index = Head(ids)
                          /\ \A j \in 1..(k - 1) : gpus[j].index # Head(ids)
             IN  [memory_used |->
                      gpus[k].memory_used + SumMemory(gpus, Tail(ids)).memory_used,
                  memory_total |->
                      gpus[k].memory_total + SumMemory(gpus, Tail(ids)).memory_total]
    ELSE SumMemory(gpus, Tail(ids))

\* what the monitoring command answered when the models were loaded
LoadTimeHw == [outcome |-> "ok", gpus |-> <<GpuInfo(0, 0), GpuInfo(1, 0)>>, procs |-> <<>>]

\* a _query_gpu_memory that answers from a snapshot taken at load time
QueryGpuMemoryAtLoad(det, key, hw) ==
    SumMemory(DetectGpus(det, LoadTimeHw).gpus, ParseTable[RawStr(key)].ids)

\* ModelLifecycleManager._query_gpu_memory: detect_gpus() is run, hw being
\* what the monitoring command answers now
QueryGpuMemory(det, key, hw) ==
    SumMemory(DetectGpus(det, hw).gpus, ParseTable[RawStr(key)].ids)

\* GpuInstanceStatus as get_gpu_status builds it; None without an instance
GpuInstanceStatus(inst, ads, memory_info) ==
    [present |-> TRUE, gpu_id |-> inst.key, port |-> inst.port,
     model_id |-> inst.model_id, status |-> ads[inst.adapter].status,
     pid |-> GetPid(ads[inst.adapter], inst.adapter),
     memory_used_mb |-> memory_info.memory_used,
     memory_total_mb |-> memory_info.memory_total]

NoInstanceStatus ==
    [present |-> FALSE, gpu_id |-> <<>>, port |-> 0, model_id |-> "none",
     status |-> "none", pid |-> 0, memory_used_mb |-> 0, memory_total_mb |-> 0]

\* the manager after some loads have returned; each child runs, or has
\* exited with its monitor having seen it or not
StatusAdapters ==
    {StartServerFinish(StartServerSpawn(FreshAdapter, "ok").ad),
     [StartServerFinish(StartServerSpawn(FreshAdapter, "ok").ad) EXCEPT !.proc = "exited"]}

InitStatus ==
    /\ gpu_instances \in HwInstanceMaps
    /\ registry = [k \in InstKeys |->
                      [pid |-> PidOf(InstAt(gpu_instances, k).adapter),
                       model_id |-> InstAt(gpu_instances, k).model_id,
                       port |-> InstAt(gpu_instances, k).port]]
    /\ adapters \in {ads \in [AdapterIds -> StatusAdapters \cup {FreshAdapter}] :
                         \A a \in AdapterIds :
                             (ads[a] = FreshAdapter) <=> (a > Len(gpu_instances))}
    /\ created = Len(gpu_instances)
    /\ ops = [s \in Slots |-> IdleOp]
    /\ started = Len(gpu_instances)
    /\ last = NoLast
    /\ recovery = NoRecovery
    /\ NormIdle
    /\ PortIdle
    /\ DetIdle
    /\ LogIdle
    /\ SupIdle

\* a caller awaits get_gpu_status(raw) while the monitoring command answers
\* hw: the key is normalised, the instance looked up, the memory queried
\* and the status built from the adapter as it is now
CallGetGpuStatus(raw, hw) ==
    /\ hw_call = NoHwCall
    /\ hw_call' =
           [call |-> "get_gpu_status",
            input |-> hw,
            raised |-> ~NormTable[raw].ok,
            gpus |-> <<>>, gpu_count |-> 0, detection_enabled |-> FALSE,
            key |-> NormTable[raw].key,
            status |->
                IF NormTable[raw].ok /\ HasInst(NormTable[raw].key)
                    THEN GpuInstanceStatus(
                             InstAt(gpu_instances, NormTable[raw].key), adapters,
                             QueryGpuMemory(gpu_detector, NormTable[raw].key, hw))
                ELSE NoInstanceStatus]
    /\ UNCHANGED <<gpu_detector, OutsideDet>>

NextStatus ==
    \/ \E raw \in OpSpecs, hw \in HwInputs : CallGetGpuStatus(raw, hw)
    \/ ObserveHw
    \/ \E a \in AdapterIds : ChildExits(a)
    \/ \E a \in AdapterIds : MonitorCrash(a)

SpecStatus == InitStatus /\ [][NextStatus]_vars

\* ------------------------------------------------------------------------
\* The parameterless status: get_status and get_current_model called in a
\* manager that has loaded models on any valid keys
\* ------------------------------------------------------------------------
\* the ModelStatus get_status builds when it finds no instance
NoModelStatus ==
    [state |-> "stopped", model_id |-> "none", port |-> GpuPort0, pid |-> 0]

\* the keys get_status and get_current_model look under, in this order
LegacyKeys == << <<"0">>, <<"0", ",", "1">>, <<"1">> >>

\* ModelLifecycleManager.get_status: the status of the first instance found
\* under these keys, else the no-model status
RECURSIVE GetStatus(_, _, _)
GetStatus(insts, ads, keys) ==
    IF keys = <<>> THEN NoModelStatus
    ELSE IF \E i \in 1..Len(insts) : insts[i].key = Head(keys)
        THEN InstanceStatus(InstAt(insts, Head(keys)), ads)
    ELSE GetStatus(insts, ads, Tail(keys))

\* ModelLifecycleManager.get_current_model: the model of that instance, or
\* None
RECURSIVE GetCurrentModel(_, _)
GetCurrentModel(insts, keys) ==
    IF keys = <<>> THEN "none"
    ELSE IF \E i \in 1..Len(insts) : insts[i].key = Head(keys)
        THEN InstAt(insts, Head(keys)).model_id
    ELSE GetCurrentModel(insts, Tail(keys))

\* the instance load_model stores for a model on any valid key
InstanceOn(key, m, a) ==
    [key |-> key, port |-> GetPortForGpu(RawStr(key)), adapter |-> a,
     model_id |-> m]

\* instance maps after zero, one or two successful loads on disjoint keys
LegacyInstanceMaps ==
    { <<>>,
      <<InstanceOn(<<"0">>, "m1", 1)>>,
      <<InstanceOn(<<"1">>, "m2", 1)>>,
      <<InstanceOn(<<"2">>, "m1", 1)>>,
      <<InstanceOn(<<"1", ",", "2">>, "m2", 1)>>,
      <<InstanceOn(<<"0", ",", "1">>, "m1", 1), InstanceOn(<<"2">>, "m2", 2)>>,
      <<InstanceOn(<<"2">>, "m1", 1), InstanceOn(<<"1">>, "m2", 2)>>,
      <<InstanceOn(<<"2">>, "m1", 1), InstanceOn(<<"3">>, "m2", 2)>> }

InitLegacy ==
    /\ gpu_instances \in LegacyInstanceMaps
    /\ registry = [k \in InstKeys |->
                      [pid |-> PidOf(InstAt(gpu_instances, k).adapter),
                       model_id |-> InstAt(gpu_instances, k).model_id,
                       port |-> InstAt(gpu_instances, k).port]]
    /\ adapters = [a \in AdapterIds |->
                      IF a <= Len(gpu_instances)
                          THEN StartServerFinish(StartServerSpawn(FreshAdapter, "ok").ad)
                      ELSE FreshAdapter]
    /\ created = Len(gpu_instances)
    /\ ops = [s \in Slots |-> IdleOp]
    /\ started = Len(gpu_instances)
    /\ last = NoLast
    /\ recovery = NoRecovery
    /\ NormIdle
    /\ PortIdle
    /\ DetIdle
    /\ LogIdle
    /\ SupIdle

\* a caller awaits get_status()
CallLegacyStatus ==
    /\ last = NoLast
    /\ last' = Result("get_status", "none", RawStr(<<>>), "ok", NoConflict,
                      GetStatus(gpu_instances, adapters, LegacyKeys), Collected, 0)
    /\ UNCHANGED <<gpu_instances, registry, adapters, created, ops, started>>
    /\ UNCHANGED OutsideMgr

\* a caller calls get_current_model()
CallCurrentModel ==
    /\ last = NoLast
    /\ last' = Result("get_current_model",
                      GetCurrentModel(gpu_instances, LegacyKeys), RawStr(<<>>),
                      "ok", NoConflict, NoView, Collected, 0)
    /\ UNCHANGED <<gpu_instances, registry, adapters, created, ops, started>>
    /\ UNCHANGED OutsideMgr

NextLegacy ==
    \/ CallLegacyStatus
    \/ CallCurrentModel
    \/ Observe
    \/ \E a \in AdapterIds : ChildExits(a)
    \/ \E a \in AdapterIds : MonitorCrash(a)

SpecLegacy == InitLegacy /\ [][NextLegacy]_vars

\* ------------------------------------------------------------------------
\* The detector's mapping over the life of an instance: detect_gpu_hardware
\* and unload_model called in a manager that has loaded some models
\* ------------------------------------------------------------------------
NextMap ==
    \/ \E hw \in HwInputs : DetectGpuHardware(hw)
    \/ ObserveHw
    \/ \E s \in Slots, raw \in FairSpecs : CallUnload(s, raw)
    \/ \E s \in Slots : StopReap(s)
    \/ \E s \in Slots : StopFail(s)
    \/ \E s \in Slots : StopFinish(s)
    \/ \E s \in Slots : Unregister(s)
    \/ \E s \in Slots : DeleteInstance(s)
    \/ \E a \in AdapterIds : ChildExits(a)
    \/ \E a \in AdapterIds : MonitorLeaves(a)
    \/ \E a \in AdapterIds : MonitorCrash(a)
    \/ Observe

SpecMap == InitHw /\ [][NextMap]_vars

\* ========================================================================
\* The monitor thread of one supervisor, its child's output and the log
\* buffer: the state right after start_server has started the thread
\* ========================================================================
\* what a child prints: bare numbered lines, or numbered lines with
\* indentation, trailing tabs and blank lines in between
LogScripts == {"plain", "ragged"}

\* line k of a script, without its newline
ScriptLine(script, k) ==
    IF script = "plain" THEN StrOfNat(k)
    ELSE IF k % 3 = 0 THEN <<>>
    ELSE IF k % 3 = 1 THEN <<" ">> \o StrOfNat(k)
    ELSE StrOfNat(k) \o <<"\t">>

\* the supervisor start_server has just returned True on
RunningAdapter ==
    StartServerFinish(
        StartServerPopen(StartServerCheck(FreshAdapter).ad, "ok").ad)

InitLog ==
    /\ MgrInit
    /\ NormIdle
    /\ PortIdle
    /\ DetIdle
    /\ log_buffer = <<>>
    /\ child_out \in {[script |-> sc, written |-> 0, alive |-> TRUE, pipe |-> <<>>] :
                          sc \in LogScripts}
    /\ log_mon = [pc |-> "check", stop_monitoring |-> FALSE]
    /\ lines_read = <<>>
    /\ sup = RunningAdapter
    /\ sup_env = NoSupEnv
    /\ sup_call = SupCall("none", "idle", 0, FreshAdapter)
    /\ sup_ret = NoSupRet

\* the child writes its next line to stdout/stderr (one pipe, line buffered)
ChildPrints ==
    /\ child_out.alive
    /\ child_out.written < MaxLines
    /\ Len(child_out.pipe)
           + Len(ScriptLine(child_out.script, child_out.written + 1)) + 1
         <= PipeCapacity
    /\ child_out' =
           [child_out EXCEPT
               !.written = @ + 1,
               !.pipe = @ \o ScriptLine(child_out.script, child_out.written + 1)
                          \o <<"\n">>]
    /\ UNCHANGED <<log_buffer, log_mon, lines_read, OutsideLog>>

\* the child exits, by itself or because stop_server signalled it
ChildOutEnds ==
    /\ child_out.alive
    /\ child_out' = [child_out EXCEPT !.alive = FALSE]
    /\ sup' = [sup EXCEPT !.proc = "exited"]
    /\ UNCHANGED <<log_buffer, log_mon, lines_read, sup_env, sup_call, sup_ret,
                   OutsideLogSup>>

\* stop_server is called: STOPPING under the lock, then the signal
StopRequested ==
    /\ sup_call.op = "none"
    /\ sup_call.calls = 0
    /\ sup' = StopServerBegin(sup).ad
    /\ sup_call' = SupCall("stop", "stopA", 1, sup)
    /\ UNCHANGED <<logvars, sup_env, sup_ret, OutsideLogSup>>

\* stop_server, after process.wait() has returned: stop_monitoring.set()
SetStopMonitoring ==
    /\ sup_call.pc = "stopA"
    /\ ~child_out.alive
    /\ log_mon' = [log_mon EXCEPT !.stop_monitoring = TRUE]
    /\ sup' = StopServerReaped(sup)
    /\ sup_call' = [sup_call EXCEPT !.pc = "stopB"]
    /\ UNCHANGED <<log_buffer, child_out, lines_read, sup_env, sup_ret,
                   OutsideLogSup>>

\* stop_server: the monitor thread is joined, the client closed, the handle
\* dropped, STOPPED set, True returned
StopReturns ==
    /\ sup_call.pc = "stopB"
    /\ log_mon.pc = "done"
    /\ sup' = StopServerFinish(sup)
    /\ sup_call' = SupCall("none", "idle", sup_call.calls, FreshAdapter)
    /\ sup_ret' = [op |-> "stop", result |-> "true", before |-> sup_call.before]
    /\ UNCHANGED <<logvars, sup_env, OutsideLogSup>>

\* _monitor_process, top of the loop: the event is clear and poll() is None
MonitorPolls ==
    /\ log_mon.pc = "check"
    /\ ~log_mon.stop_monitoring
    /\ child_out.alive
    /\ log_mon' = [log_mon EXCEPT !.pc = "read"]
    /\ UNCHANGED <<log_buffer, child_out, lines_read, OutsideLog>>

\* _monitor_process: readline() returns (a line of the pipe, or "" at end of
\* file once the child has exited; it blocks while the pipe is empty and
\* the child lives), the line is appended stripped
MonitorReadline ==
    /\ log_mon.pc = "read"
    /\ child_out.pipe # <<>> \/ ~child_out.alive
    /\ log_buffer' = LoopAppend(log_buffer, Readline(child_out.pipe).line)
    /\ child_out' = [child_out EXCEPT !.pipe = Readline(child_out.pipe).rest]
    /\ lines_read' =
           IF child_out.pipe = <<>> THEN lines_read
           ELSE Append(lines_read,
                       LineRead(Chomp(Readline(child_out.pipe).line), FALSE))
    /\ log_mon' = [log_mon EXCEPT !.pc = "check"]
    /\ UNCHANGED OutsideLog

\* _monitor_process: poll() shows the exit; stdout.read() takes what is
\* left, its non-blank lines are appended, then CRASHED is written
MonitorDrains ==
    /\ log_mon.pc = "check"
    /\ ~log_mon.stop_monitoring
    /\ ~child_out.alive
    /\ log_buffer' = DrainAppend(log_buffer, child_out.pipe)
    /\ child_out' = [child_out EXCEPT !.pipe = <<>>]
    /\ lines_read' = lines_read \o Drained(LinesOf(child_out.pipe))
    /\ log_mon' = [log_mon EXCEPT !.pc = "handle"]
    /\ sup' = MonitorSetsCrashed(sup)
    /\ UNCHANGED <<sup_env, sup_call, sup_ret, OutsideLogSup>>

\* _handle_crash, after which the thread ends
MonitorHandlesCrash ==
    /\ log_mon.pc = "handle"
    /\ log_mon' = [log_mon EXCEPT !.pc = "done"]
    /\ sup' = [sup EXCEPT !.status = HandleCrashStatus(sup), !.monitor = "done"]
    /\ sup_env' = HandleCrashRound(sup, sup_env)
    /\ UNCHANGED <<log_buffer, child_out, lines_read, sup_call, sup_ret,
                   OutsideLogSup>>

\* _monitor_process: the loop condition finds stop_monitoring set
MonitorStops ==
    /\ log_mon.pc = "check"
    /\ log_mon.stop_monitoring
    /\ log_mon' = [log_mon EXCEPT !.pc = "done"]
    /\ sup' = [sup EXCEPT !.monitor = "done"]
    /\ UNCHANGED <<log_buffer, child_out, lines_read, sup_env, sup_call, sup_ret,
                   OutsideLogSup>>

NextLog ==
    \/ ChildPrints
    \/ ChildOutEnds
    \/ StopRequested
    \/ SetStopMonitoring
    \/ StopReturns
    \/ MonitorPolls
    \/ MonitorReadline
    \/ MonitorDrains
    \/ MonitorHandlesCrash
    \/ MonitorStops

SpecLog == InitLog /\ [][NextLog]_vars

\* the monitor is a thread of its own, which the scheduler keeps running
MonitorFairness ==
    /\ WF_vars(MonitorPolls)
    /\ WF_vars(MonitorReadline)
    /\ WF_vars(MonitorDrains)
    /\ WF_vars(MonitorHandlesCrash)
    /\ WF_vars(MonitorStops)

SpecLogFair == SpecLog /\ MonitorFairness

\* ========================================================================
\* One supervisor called directly: start_server, stop_server and
\* restart_server from one caller thread, against its monitor threads and
\* its child
\* ========================================================================
InitSup ==
    /\ MgrInit
    /\ NormIdle
    /\ PortIdle
    /\ DetIdle
    /\ LogIdle
    /\ SupIdle

\* what the file system and the OS answer to a start
StartOutcomes == {"ok", "nofile", "oserror"}

\* a call returns: the caller is idle again and holds the result
SupReturn(ad, env, op, result, before, calls) ==
    /\ sup' = ad
    /\ sup_env' = env
    /\ sup_call' = SupCall("none", "idle", calls, FreshAdapter)
    /\ sup_ret' = [op |-> op, result |-> result, before |-> before]
    /\ UNCHANGED OutsideSup

\* a call moves on to its next position
SupGoto(ad, env, op, pc, calls, before) ==
    /\ sup' = ad
    /\ sup_env' = env
    /\ sup_call' = SupCall(op, pc, calls, before)
    /\ sup_ret' = NoSupRet
    /\ UNCHANGED OutsideSup

\* a step of a monitor thread or of the child
SupEnvStep(ad, env) ==
    /\ sup' = ad
    /\ sup_env' = env
    /\ sup_ret' = NoSupRet
    /\ UNCHANGED <<sup_call, OutsideSup>>

CanCallSup == sup_call.op = "none" /\ sup_call.calls < MaxCalls

\* start_server is called: the locked status test; a rejected call raises
SupCallStart ==
    /\ CanCallSup
    /\ IF StartServerCheck(sup).raised
           THEN SupReturn(sup, sup_env, "start", "raised", sup,
                          sup_call.calls + 1)
       ELSE SupGoto(StartServerCheck(sup).ad, sup_env, "start", "popen",
                    sup_call.calls + 1, sup)

\* start_server: the model path is tested, the child spawned and the
\* monitor thread started; or one of these raises: ERROR, AdapterError.
\* A monitor thread still inside _handle_crash and a child still alive
\* are left behind by the new thread and the new handle
SupStartPopen(outcome) ==
    /\ sup_call.op = "start"
    /\ sup_call.pc = "popen"
    /\ IF StartServerPopen(sup, outcome).raised
           THEN SupReturn(StartServerPopen(sup, outcome).ad, sup_env, "start",
                          "raised", sup_call.before, sup_call.calls)
       ELSE SupGoto(StartServerPopen(sup, outcome).ad,
                    [sup_env EXCEPT
                        !.stale = @ + (IF sup.monitor = "handle" THEN 1 ELSE 0),
                        !.orphans = @ + (IF sup.proc = "alive" THEN 1 ELSE 0)],
                    "start", "finish", sup_call.calls, sup_call.before)

\* start_server: the client is created, RUNNING is set, True is returned
SupStartFinish ==
    /\ sup_call.op = "start"
    /\ sup_call.pc = "finish"
    /\ SupReturn(StartServerFinish(sup), sup_env, "start", "true",
                 sup_call.before, sup_call.calls)

\* stop_server is called, by the caller or by restart_server: it returns
\* True at once (already stopped, or no process), or signals the child
SupCallStop(op) ==
    /\ CanCallSup
    /\ IF StopServerBegin(sup).returned /\ op = "stop"
           THEN SupReturn(StopServerBegin(sup).ad, sup_env, "stop", "true", sup,
                          sup_call.calls + 1)
       ELSE SupGoto(StopServerBegin(sup).ad, sup_env, op,
                    IF StopServerBegin(sup).returned THEN "count" ELSE "stopA",
                    sup_call.calls + 1, sup)

\* stop_server: process.wait() returns, stop_monitoring is set
SupStopReap ==
    /\ sup_call.pc = "stopA"
    /\ sup.proc = "exited"
    /\ SupGoto(StopServerReaped(sup), sup_env, sup_call.op, "stopB",
               sup_call.calls, sup_call.before)

\* stop_server: the child outlives kill() and the last wait raises: ERROR,
\* False is returned (restart_server returns False in its turn)
SupStopFail ==
    /\ sup_call.pc = "stopA"
    /\ sup.proc = "alive"
    /\ SupReturn(StopServerError(sup), sup_env, sup_call.op, "false",
                 sup_call.before, sup_call.calls)

\* stop_server: the monitor thread is joined, the client closed, the handle
\* dropped, STOPPED set, True returned
SupStopFinish ==
    /\ sup_call.pc = "stopB"
    /\ sup.monitor \in {"none", "done"}
    /\ IF sup_call.op = "stop"
           THEN SupReturn(StopServerFinish(sup), sup_env, "stop", "true",
                          sup_call.before, sup_call.calls)
       ELSE SupGoto(StopServerFinish(sup), sup_env, sup_call.op, "count",
                    sup_call.calls, sup_call.before)

\* restart_server after its stop and its pause: the counter is incremented,
\* ERROR is set when it exceeds the maximum, False is returned either way
SupRestartCount ==
    /\ sup_call.op = "restart"
    /\ sup_call.pc = "count"
    /\ SupReturn(RestartServerCount(sup), sup_env, "restart", "false",
                 sup_call.before, sup_call.calls)

\* the child exits: by itself, or of a signal it was sent
SupChildExits ==
    /\ sup.proc = "alive"
    /\ SupEnvStep([sup EXCEPT !.proc = "exited"], sup_env)

\* _monitor_process: stop_monitoring is set (or the handle is gone): leave
SupMonitorLeaves ==
    /\ sup.monitor = "loop"
    /\ sup.stop_monitoring \/ sup.proc = "none"
    /\ SupEnvStep([sup EXCEPT !.monitor = "done"], sup_env)

\* _monitor_process: poll() shows the child gone: CRASHED
SupMonitorCrash ==
    /\ sup.monitor = "loop"
    /\ ~sup.stop_monitoring
    /\ sup.proc = "exited"
    /\ SupEnvStep(MonitorSetsCrashed(sup), sup_env)

\* _handle_crash in the current monitor thread, which then ends
SupHandleCrash ==
    /\ sup.monitor = "handle"
    /\ SupEnvStep([sup EXCEPT !.status = HandleCrashStatus(sup),
                              !.monitor = "done"],
                  HandleCrashRound(sup, sup_env))

\* _handle_crash in a monitor thread that a later start has replaced
SupStaleHandleCrash ==
    /\ sup_env.stale > 0
    /\ SupEnvStep([sup EXCEPT !.status = HandleCrashStatus(sup)],
                  [HandleCrashRound(sup, sup_env) EXCEPT !.stale = @ - 1])

NextSup ==
    \/ SupCallStart
    \/ \E outcome \in StartOutcomes : SupStartPopen(outcome)
    \/ SupStartFinish
    \/ \E op \in {"stop", "restart"} : SupCallStop(op)
    \/ SupStopReap
    \/ SupStopFail
    \/ SupStopFinish
    \/ SupRestartCount
    \/ SupChildExits
    \/ SupMonitorLeaves
    \/ SupMonitorCrash
    \/ SupHandleCrash
    \/ SupStaleHandleCrash

SpecSup == InitSup /\ [][NextSup]_vars

\* the monitor threads are threads of their own, which the scheduler keeps
\* running; the caller and the child are under no obligation
SupMonitorFairness ==
    /\ WF_vars(SupMonitorLeaves)
    /\ WF_vars(SupMonitorCrash)
    /\ WF_vars(SupHandleCrash)
    /\ WF_vars(SupStaleHandleCrash)

SpecSupFair == SpecSup /\ SupMonitorFairness

\* ------------------------------------------------------------------------
\* get_logs on its own: called with any line count on a supervisor whose
\* buffer holds some lines
\* ------------------------------------------------------------------------
\* Python's s[start:] (start < 0 counts from the end, -0 is 0)
SliceFrom(s, start) ==
    IF start < 0
        THEN IF Len(s) + start <= 0 THEN s
             ELSE SubSeq(s, Len(s) + start + 1, Len(s))
    ELSE SubSeq(s, start + 1, Len(s))

\* LlamaCppAdapter.get_logs: list(self.log_buffer)[-lines:]
GetLogs(buf, lines) == SliceFrom(buf, 0 - lines)

\* ModelLifecycleManager.get_server_logs for a key with an instance:
\* lines = min(lines, 300), then the adapter's get_logs
GetServerLogs(buf, lines) ==
    GetLogs(buf, IF lines < LogCapacity THEN lines ELSE LogCapacity)

\* lines a buffer can hold (as the monitor stripped them)
LogLineTexts == {<<"a">>, <<"b">>, <<"a", " ", "b">>}

\* the buffers: every sequence of at most MaxBuf of these lines
LogBuffers == UNION {[1..n -> LogLineTexts] : n \in 0..MaxBuf}

InitGetLogs ==
    /\ MgrInit
    /\ NormIdle
    /\ PortIdle
    /\ DetIdle
    /\ log_buffer \in LogBuffers
    /\ child_out = NoChildOut
    /\ log_mon = [pc |-> "done", stop_monitoring |-> FALSE]
    /\ lines_read = <<>>
    /\ SupIdle

GetLogsFrame ==
    UNCHANGED <<log_buffer, child_out, log_mon, lines_read, sup, sup_env,
                sup_call, OutsideLogSup>>

\* a caller calls adapter.get_logs(lines)
CallGetLogs(lines) ==
    /\ sup_ret = NoSupRet
    /\ sup_ret' = [op |-> "get_logs", result |-> GetLogs(log_buffer, lines),
                   before |-> FreshAdapter, lines |-> lines]
    /\ GetLogsFrame

\* a caller awaits get_server_logs(key, lines) for the key of this adapter
CallGetServerLogs(lines) ==
    /\ sup_ret = NoSupRet
    /\ sup_ret' = [op |-> "get_server_logs",
                   result |-> GetServerLogs(log_buffer, lines),
                   before |-> FreshAdapter, lines |-> lines]
    /\ GetLogsFrame

\* the caller has the lines
ObserveLogs ==
    /\ sup_ret # NoSupRet
    /\ sup_ret' = NoSupRet
    /\ GetLogsFrame

NextGetLogs ==
    \/ \E lines \in 0..(MaxBuf + 1) : CallGetLogs(lines)
    \/ \E lines \in 0..(MaxBuf + 1) : CallGetServerLogs(lines)
    \/ ObserveLogs

SpecGetLogs == InitGetLogs /\ [][NextGetLogs]_vars

\* ========================================================================
\* The manager's construction over a registry file left by an earlier run:
\* __init__ up to the return of _recover_processes
\* ========================================================================
\* the keys a registry file can hold: the manager's keys and a foreign one
RecoveryKeys == {k.chars : k \in OpKeys} \cup {<<"7">>}

\* the pids recorded by the earlier run
RecoveryPids == {101, 102}

\* the records of the earlier run: any pid, a configured model or one that
\* is configured no more
RecoveryRecords ==
    [pid : RecoveryPids, model_id : {"m1", "old"}, port : {GpuPort0}]

\* the registry files: any record under any subset of the keys
RecoveryFiles ==
    UNION {[ks -> RecoveryRecords] : ks \in SUBSET RecoveryKeys}

\* ProcessRegistry.verify_all_processes: each recorded pid is probed, the
\* answer is whether it is alive
VerifyAllProcesses(reg, alive) == [k \in DOMAIN reg |-> reg[k].pid \in alive]

\* a sweep that discards nothing
RecoverEntryKeepsDead(reg, results, k) == reg

\* _recover_processes, one iteration of its loop over the probe's answers:
\* a running entry is logged, an entry that is not running is unregistered
RecoverEntry(reg, results, k) ==
    IF results[k] THEN reg ELSE UnregisterProcess(reg, k)

\* __init__ has set gpu_instances = {} and process_registry.load() has read
\* the file; of the recorded pids any may be alive
InitRecover ==
    /\ gpu_instances = <<>>
    /\ registry \in RecoveryFiles
    /\ adapters = [a \in AdapterIds |-> FreshAdapter]
    /\ created = 0
    /\ ops = [s \in Slots |-> IdleOp]
    /\ started = 0
    /\ last = NoLast
    /\ \E alive \in SUBSET RecoveryPids :
           recovery = [pc |-> "verify", stored |-> registry, alive |-> alive,
                       results |-> [k \in {} |-> FALSE], todo |-> {}]
    /\ NormIdle
    /\ PortIdle
    /\ DetIdle
    /\ LogIdle
    /\ SupIdle

RecoverFrame == UNCHANGED <<gpu_instances, adapters, created, ops, started, last, OutsideRec>>

\* _recover_processes: verification_results = verify_all_processes()
RecoverVerify ==
    /\ recovery.pc = "verify"
    /\ recovery' = [recovery EXCEPT
                       !.pc = "loop",
                       !.results = VerifyAllProcesses(registry, recovery.alive),
                       !.todo = DOMAIN registry]
    /\ UNCHANGED registry
    /\ RecoverFrame

\* _recover_processes: one iteration of the loop
RecoverLoop(k) ==
    /\ recovery.pc = "loop"
    /\ k \in recovery.todo
    /\ registry' = RecoverEntry(registry, recovery.results, k)
    /\ recovery' = [recovery EXCEPT !.todo = recovery.todo \ {k}]
    /\ RecoverFrame

\* _recover_processes returns, and __init__ with it
RecoverReturns ==
    /\ recovery.pc = "loop"
    /\ recovery.todo = {}
    /\ recovery' = [recovery EXCEPT !.pc = "done"]
    /\ UNCHANGED registry
    /\ RecoverFrame

\* a process of the earlier run exits while the manager is constructed
RecoverPidExits(pid) ==
    /\ recovery.pc # "done"
    /\ pid \in recovery.alive
    /\ recovery' = [recovery EXCEPT !.alive = recovery.alive \ {pid}]
    /\ UNCHANGED registry
    /\ RecoverFrame

NextRecover ==
    \/ RecoverVerify
    \/ \E k \in RecoveryKeys : RecoverLoop(k)
    \/ RecoverReturns
    \/ \E pid \in RecoveryPids : RecoverPidExits(pid)

SpecRecover == InitRecover /\ [][NextRecover]_vars

\* ------------------------------------------------------------------------
\* The manager after its construction has kept records of an earlier run:
\* load_model and unload_model called on keys that have such a record
\* ------------------------------------------------------------------------
\* the registry files of this specification: no record, or one record under
\* the key "0" or under the key "1"
SurvivorFiles == {reg \in RecoveryFiles : DOMAIN reg \in {{}, {<<"0">>}, {<<"1">>}}}

\* the callers' resource specs and model
SurvivorSpecs == {RawInt(0), RawStr(<<"1">>)}

InitSurvive ==
    /\ InitRecover
    /\ registry \in SurvivorFiles

\* a process of the earlier run exits after the manager is constructed
SurvivorExits(pid) ==
    /\ recovery.pc = "done"
    /\ pid \in recovery.alive
    /\ recovery' = [recovery EXCEPT !.alive = recovery.alive \ {pid}]
    /\ UNCHANGED registry
    /\ RecoverFrame

NextSurvive ==
    \/ RecoverVerify
    \/ \E k \in RecoveryKeys : RecoverLoop(k)
    \/ RecoverReturns
    \/ \E pid \in RecoveryPids : RecoverPidExits(pid)
    \/ \E pid \in RecoveryPids : SurvivorExits(pid)
    \/ \E s \in Slots, raw \in SurvivorSpecs :
           recovery.pc = "done" /\ CallLoad(s, "m1", raw)
    \/ \E s \in Slots, raw \in SurvivorSpecs :
           recovery.pc = "done" /\ CallUnload(s, raw)
    \/ \E s \in Slots : StartFinish(s)
    \/ \E s \in Slots : WaitTimeout(s)
    \/ \E s \in Slots : WaitSeesExit(s)
    \/ \E s \in Slots : WaitProbe(s)
    \/ \E s \in Slots : ProbeFails(s)
    \/ \E s \in Slots : ProbeSucceeds(s)
    \/ \E s \in Slots : StopReap(s)
    \/ \E s \in Slots : StopFail(s)
    \/ \E s \in Slots : StopFinish(s)
    \/ \E s \in Slots : Unregister(s)
    \/ \E s \in Slots : DeleteInstance(s)
    \/ \E a \in AdapterIds : ChildExits(a)
    \/ \E a \in AdapterIds : MonitorLeaves(a)
    \/ \E a \in AdapterIds : MonitorCrash(a)
    \/ Observe

SpecSurvive == InitSurvive /\ [][NextSurvive]_vars


\* ========================================================================
\* Properties
\* ========================================================================

\* C1: in every reachable state no two active instances hold resource keys
\* whose device sets intersect, whatever load, unload and switch calls are in
\* flight together.
NoOverlappingInstances ==
    \A i, j \in 1..Len(gpu_instances) :
        i # j => KeyDevices(gpu_instances[i].key)
                     \cap KeyDevices(gpu_instances[j].key) = {}

\* C2: a load whose device set intersects that of an active instance is
\* rejected with a conflict error that names an active instance sharing a
\* device with the request, the shared devices and that instance's model; the
\* rejection changes neither the instance map, nor the registry, nor any
\* supervisor, and creates none; and no load gets as far as starting a child
\* while an active instance shares a device with it.
ConflictRejected ==
    [][ /\ (last = NoLast /\ last'.result = "conflict") =>
               /\ \E i \in 1..Len(gpu_instances) :
                      /\ gpu_instances[i].key = last'.detail.owner
                      /\ gpu_instances[i].model_id = last'.detail.owner_model
                      /\ last'.detail.overlap =
                             SeqRange(ValidateAndParse(last'.raw).ids)
                                 \cap KeyDevices(gpu_instances[i].key)
                      /\ last'.detail.overlap # {}
               /\ gpu_instances' = gpu_instances
               /\ registry' = registry
               /\ adapters' = adapters
               /\ created' = created
        /\ \A s \in Slots :
               (ops[s].pc # "start2" /\ ops'[s].pc = "start2") =>
                   \A i \in 1..Len(gpu_instances) :
                       KeyDevices(gpu_instances[i].key)
                           \cap KeyDevices(ops'[s].key) = {}
      ]_vars

\* C2 witness: with one instance active and nothing in flight, a load on a
\* different key that shares a device with it has been rejected
ConflictRejectedWitness ==
    /\ last.kind = "load"
    /\ last.result = "conflict"
    /\ Len(gpu_instances) = 1
    /\ \A s \in Slots : ops[s] = IdleOp
    /\ last.detail.owner # NormalizeGpuId(last.raw).key

UnloadAlwaysSucceeds ==
    [][ /\ (last = NoLast /\ last'.kind = "unload" /\ NormalizeGpuId(last'.raw).ok
              /\ NormalizeGpuId(last'.raw).key \notin InstKeys) =>
               /\ last'.result = "ok"
               /\ gpu_instances' = gpu_instances
               /\ registry' = registry
               /\ adapters' = adapters
               /\ created' = created
               /\ ops' = ops
        /\ (last = NoLast /\ last'.kind = "unload" /\ NormalizeGpuId(last'.raw).ok) =>
               /\ last'.result = "ok"
               /\ NormalizeGpuId(last'.raw).key \notin InstKeys'
      ]_vars

\* C4: unload on a key without an active instance returns success and
\* changes nothing (instance map, registry, every supervisor), and never
\* starts stopping anything; an unload that returns success leaves the key
\* without an instance, so that an unload directly after a successful unload
\* of the same key succeeds and changes nothing.
UnloadIdempotent ==
    [][ /\ (last = NoLast /\ last'.kind = "unload" /\ NormalizeGpuId(last'.raw).ok
              /\ NormalizeGpuId(last'.raw).key \notin InstKeys) =>
               /\ last'.result = "ok"
               /\ gpu_instances' = gpu_instances
               /\ registry' = registry
               /\ adapters' = adapters
               /\ created' = created
               /\ ops' = ops
        /\ \A s \in Slots :
               (ops[s] = IdleOp /\ ops'[s].kind = "unload") => ops'[s].key \in InstKeys
        /\ (last = NoLast /\ last'.kind = "unload" /\ last'.result = "ok") =>
               NormalizeGpuId(last'.raw).key \notin InstKeys'
      ]_vars

\* C4 witness: after supervisors have come and gone, an unload on a key
\* without an instance has returned success
UnloadIdempotentWitness ==
    /\ last.kind = "unload"
    /\ last.result = "ok"
    /\ last.aid = 0
    /\ created > 0
    /\ gpu_instances = <<>>

\* C5: unload removes the registry record only once the supervisor of the
\* key's instance is stopped and its process gone, and removes the instance
\* only once the record is gone; no state has a registry record without an
\* instance; and when unload of an active instance returns success the
\* supervisor is stopped, the registry has no record for the key and
\* status(R) is absent.
UnloadOrder ==
    [][ /\ \A k \in (DOMAIN registry) \ (DOMAIN registry') :
               \E i \in 1..Len(gpu_instances) :
                   /\ gpu_instances[i].key = k
                   /\ adapters[gpu_instances[i].adapter].status = "stopped"
                   /\ adapters[gpu_instances[i].adapter].proc = "none"
        /\ \A k \in InstKeys \ InstKeys' : k \notin DOMAIN registry
        /\ (DOMAIN registry') \subseteq InstKeys'
        /\ (last = NoLast /\ last'.kind = "unload" /\ last'.result = "ok"
              /\ last'.aid # 0) =>
               /\ last'.sup.status = "stopped"
               /\ last'.sup.proc = "none"
               /\ last'.raw.chars \in InstKeys
               /\ last'.raw.chars \notin DOMAIN registry'
               /\ GetGpuStatus(gpu_instances', adapters', last'.raw.chars).result
                      = "absent"
      ]_vars

\* C5 witness: unload of an active instance has returned success
UnloadOrderWitness ==
    /\ last.kind = "unload"
    /\ last.result = "ok"
    /\ last.aid # 0
    /\ last.sup.status = "stopped"

\* C6: load, unload, switch and status reject a spec that is malformed, has
\* a duplicate index or an index outside 0..7 with a validation error, and
\* the call changes neither the instance map, nor the registry, nor any
\* supervisor, creates none and leaves every coroutine where it is.
InvalidSpecRejected ==
    [][ (/\ last = NoLast
         /\ last'.kind \in {"load", "unload", "switch", "status"}
         /\ last'.raw \in {RawStr(<<"x">>), RawStr(<<"0", ",", "0">>),
                            RawStr(<<"8">>)}) =>
            /\ last'.result = "validation_error"
            /\ gpu_instances' = gpu_instances
            /\ registry' = registry
            /\ adapters' = adapters
            /\ created' = created
            /\ ops' = ops
      ]_vars

\* C6 witness: with an instance active, a switch to an unknown model with a
\* duplicate index has been rejected with a validation error
InvalidSpecRejectedWitness ==
    /\ last.kind = "switch"
    /\ last.model \notin Models
    /\ last.raw = RawStr(<<"0", ",", "0">>)
    /\ last.result = "validation_error"
    /\ gpu_instances # <<>>

\* C7: normalisation is canonical.  "both" and "0,1" give the key "0,1"; an
\* integer i in 0..7 gives the key of str(i), the one digit i; the key of a
\* valid spec is the digits of its device set in strictly increasing order,
\* separated by commas (so it is determined by the device set alone); and
\* normalising a key returns that key.
NormalizeCanonical ==
    nres # Unset =>
        LET devs == SeqRange(ValidateAndParse(nraw).ids)
            key == nres.key
            Odd == {k \in 1..Len(key) : k % 2 = 1}
        IN  /\ (nraw = RawStr(StrBoth) \/ nraw = RawStr(<<"0", ",", "1">>))
                   => nres.ok /\ key = <<"0", ",", "1">>
            /\ \A i \in 0..MaxGpuIndex :
                   nraw = RawInt(i) \/ nraw = RawStr(StrOfInt(i))
                       => nres.ok /\ key = <<DigitChar[i + 1]>>
            /\ nres.ok =>
                   /\ devs # {}
                   /\ Len(key) = 2 * Cardinality(devs) - 1
                   /\ \A k \in 1..Len(key) : k \notin Odd => key[k] = ","
                   /\ \A k \in Odd : IsDigit(key[k]) /\ DigitVal(key[k]) \in devs
                   /\ \A j, k \in Odd : j < k => DigitVal(key[j]) < DigitVal(key[k])
                   /\ NormalizeGpuId(RawStr(key)) = nres

\* C7 witness: the spec "1,0" has been normalised, to the key "0,1"
NormalizeCanonicalWitness ==
    /\ nraw = RawStr(<<"1", ",", "0">>)
    /\ nres.ok
    /\ nres.key = <<"0", ",", "1">>

\* C8: a load with a model id that is not configured fails with a not-found
\* error (with a validation error when the spec is invalid too) and changes
\* neither the instance map, nor the registry, nor any supervisor, and creates
\* none; no load of an unconfigured model is ever in flight.
UnknownModelRejected ==
    [][ /\ (last = NoLast /\ last'.kind = "load" /\ last'.model \notin Models) =>
               /\ last'.result = IF NormalizeGpuId(last'.raw).ok THEN "not_found"
                                  ELSE "validation_error"
               /\ gpu_instances' = gpu_instances
               /\ registry' = registry
               /\ adapters' = adapters
               /\ created' = created
               /\ ops' = ops
        /\ \A s \in Slots : ops'[s].kind = "load" => ops'[s].model \in Models
      ]_vars

\* C8 witness: with an instance active on the very key, a load of an
\* unconfigured model has been rejected as not found
UnknownModelRejectedWitness ==
    /\ last.kind = "load"
    /\ last.model \notin Models
    /\ last.result = "not_found"
    /\ NormalizeGpuId(last.raw).key \in InstKeys

\* C9: when the engine does not become ready (the wait times out, or sees
\* the child gone) the load fails, no process of this load is left running,
\* no instance and no registry record is created, and no further supervisor
\* is created.
NotReadyNoProcess ==
    [][ (last = NoLast /\ last'.result = "not_ready") =>
            /\ last'.sup.proc # "alive"
            /\ gpu_instances' = gpu_instances
            /\ registry' = registry
            /\ created' = created
      ]_vars

\* C10: when start_server fails inside a load (artifact missing, launch
\* failure) the load fails, the supervisor is in state error with neither a
\* process nor a monitor thread, the instance map and the registry are
\* unchanged, and nothing is started again: no supervisor is kept or created
\* and the coroutine ends.
SpawnFailureClean ==
    [][ (last = NoLast /\ last'.result = "spawn_error") =>
            /\ last'.sup.status = "error"
            /\ last'.sup.proc = "none"
            /\ last'.sup.monitor = "none"
            /\ gpu_instances' = gpu_instances
            /\ registry' = registry
            /\ adapters' = adapters
            /\ created' = created
            /\ \A s \in Slots : ops'[s] = ops[s] \/ ops'[s] = IdleOp
      ]_vars

\* C10 witness: a load has failed in start_server
SpawnFailureCleanWitness ==
    /\ last.kind = "load"
    /\ last.result = "spawn_error"
    /\ last.sup.status = "error"

\* C11: switch(m, R) when the instance on normalize(R) already has model m
\* returns success at once and changes neither the instance map (the
\* instance and its port), nor the registry, nor any supervisor (no stop, no
\* start, same process), creates no supervisor and starts no coroutine; a
\* switch that starts unloading has found another model than the one it was
\* asked for.
SwitchSameModelNoOp ==
    [][ /\ \A s \in Slots :
               (ops[s] = IdleOp /\ ops'[s].kind = "switch"
                  /\ ops'[s].phase = "unload") =>
                   /\ ops'[s].old # "none"
                   /\ ops'[s].old # ops'[s].model
        /\ (/\ last = NoLast
            /\ last'.kind = "switch"
            /\ \A s \in Slots : ops'[s] = IdleOp => ops[s] = IdleOp
            /\ NormalizeGpuId(last'.raw).ok
            /\ \E i \in 1..Len(gpu_instances) :
                   /\ gpu_instances[i].key = NormalizeGpuId(last'.raw).key
                   /\ gpu_instances[i].model_id = last'.model) =>
               /\ last'.result = "ok"
               /\ gpu_instances' = gpu_instances
               /\ registry' = registry
               /\ adapters' = adapters
               /\ created' = created
               /\ ops' = ops
               /\ last'.view.model_id = last'.model
               /\ last'.view.port =
                      GetPortForGpu(RawStr(NormalizeGpuId(last'.raw).key))
      ]_vars

\* C11 witness: a switch to the model its key already runs has returned
\* success without creating or stopping a supervisor
SwitchSameModelNoOpWitness ==
    /\ last.kind = "switch"
    /\ last.result = "ok"
    /\ last.aid = 0
    /\ last.view.state = "running"
    /\ last.view.model_id = last.model
    /\ NormalizeGpuId(last.raw).key \in InstKeys

\* C12: when switch has unloaded the old model and the load of the new one
\* fails, switch fails and the resource is left idle: the key has no instance
\* and no registry record, and the process the failed load spawned is not
\* running.
SwitchFailureIdle ==
    [][ \A s \in Slots :
            (/\ ops[s].kind = "switch" /\ ops[s].phase = "load"
             /\ ops[s].old # "none"
             /\ ops'[s] = IdleOp) =>
                \/ last'.result = "ok"
                \/ /\ last'.kind = "switch"
                   /\ ops[s].key \notin InstKeys'
                   /\ ops[s].key \notin DOMAIN registry'
                   /\ last'.sup.proc # "alive"
      ]_vars

\* C13: the port of a spec is a function of its smallest device index p and
\* of the configuration alone: the configured port of device 0 for p = 0, of
\* device 1 for p = 1, and (configured port of device 0) + 7 * p for p >= 2;
\* so a spec gets the same port at every call, and two specs with the same
\* smallest index get the same port.
PortFormula ==
    /\ \A o \in port_seen :
           LET ids == ValidateAndParse(o.raw).ids
               p == CHOOSE d \in SeqRange(ids) : \A e \in SeqRange(ids) : d <= e
           IN  o.port = IF p = 0 THEN gpu_ports.gpu0
                        ELSE IF p = 1 THEN gpu_ports.gpu1
                        ELSE gpu_ports.gpu0 + PortStride * p
    /\ \A o1, o2 \in port_seen :
           ValidateAndParse(o1.raw).ids[1] = ValidateAndParse(o2.raw).ids[1]
               => o1.port = o2.port

\* C14: for every parsed device and threshold T the detector gives: idle with
\* select_enabled (and the mapped name, if the device index has a mapping)
\* when memory_used <= T; model_loaded with the mapped name and
\* select_enabled when memory_used > T and the device index has a mapping;
\* occupied_by_others without select_enabled and with the process rows of
\* that device index when memory_used > T and it has none; and
\* select_enabled is false exactly when the state is occupied_by_others.
DetectorClassification ==
    (hw_call.call = "detect_gpus" /\ hw_call.input.outcome = "ok"
       /\ hw_call.input.gpus # <<>>) =>
        \A k \in 1..Len(hw_call.input.gpus) :
            LET g == hw_call.input.gpus[k]
                r == hw_call.gpus[k]
                T == gpu_detector.memory_threshold_mb
                mapped == RawInt(g.index) \in DOMAIN gpu_detector.mapping
                name == IF mapped THEN PyStr(gpu_detector.mapping[RawInt(g.index)])
                        ELSE PyNone
            IN  /\ g.memory_used <= T =>
                       r.state = "idle" /\ r.select_enabled /\ r.model_name = name
                /\ (g.memory_used > T /\ mapped) =>
                       /\ r.state = "model_loaded"
                       /\ r.select_enabled
                       /\ r.model_name = name
                /\ (g.memory_used > T /\ ~mapped) =>
                       /\ r.state = "occupied_by_others"
                       /\ ~r.select_enabled
                       /\ r.process_info = ProcessesOf(hw_call.input.procs, g.index)
                /\ (~r.select_enabled) <=> (r.state = "occupied_by_others")

\* C15: in the device records of the manager's hardware snapshot, a device
\* that belongs to the key of an active instance and whose used memory
\* exceeds the threshold is model_loaded with that instance's model name, and
\* occupied_by_others is given only to a device above the threshold that no
\* active instance owns.
OwnedDeviceModelLoaded ==
    hw_call.call = "detect_gpu_hardware" =>
        \A k \in 1..Len(hw_call.gpus) :
            LET r == hw_call.gpus[k]
                T == gpu_detector.memory_threshold_mb
                owners == {i \in 1..Len(gpu_instances) :
                              r.index \in KeyDevices(gpu_instances[i].key)}
            IN  /\ (r.memory_used > T /\ owners # {}) =>
                       /\ r.state = "model_loaded"
                       /\ \E i \in owners :
                              r.model_name = PyStr(ModelName(gpu_instances[i].model_id))
                /\ r.state = "occupied_by_others" =>
                       r.memory_used > T /\ owners = {}

\* C16: detect_gpus never raises.  When the monitoring command is missing,
\* exits non-zero, times out, the fixture cannot be read, anything else
\* raises, or no device is parsed, it returns exactly the one CPU record
\* (index -1, idle, memory 0/0, select_enabled, no model, no processes);
\* otherwise one record per parsed device, in order, with its index and
\* memory figures.
DetectNeverFails ==
    hw_call.call = "detect_gpus" =>
        /\ ~hw_call.raised
        /\ IF hw_call.input.outcome # "ok" \/ hw_call.input.gpus = <<>>
               THEN hw_call.gpus =
                        <<[index |-> 0 - 1, state |-> "idle", model_name |-> PyNone,
                           process_info |-> PyNone, select_enabled |-> TRUE,
                           memory_used |-> 0, memory_total |-> 0]>>
           ELSE /\ Len(hw_call.gpus) = Len(hw_call.input.gpus)
                /\ \A k \in 1..Len(hw_call.gpus) :
                       /\ hw_call.gpus[k].index = hw_call.input.gpus[k].index
                       /\ hw_call.gpus[k].index >= 0
                       /\ hw_call.gpus[k].memory_used = hw_call.input.gpus[k].memory_used
                       /\ hw_call.gpus[k].memory_total = hw_call.input.gpus[k].memory_total

\* C16 witness: the monitoring command timed out and detect_gpus returned the
\* CPU record
DetectNeverFailsWitness ==
    /\ hw_call.call = "detect_gpus"
    /\ hw_call.input.outcome = "timeout"
    /\ ~hw_call.raised
    /\ Len(hw_call.gpus) = 1
    /\ hw_call.gpus[1].index = 0 - 1

\* C17: detect_gpu_hardware always returns a snapshot, whatever the manager
\* has loaded and whatever the detector meets: the device list, device_count
\* equal to the number of records with index >= 0, and detection_enabled.
SnapshotNeverFails ==
    hw_call.call = "detect_gpu_hardware" =>
        /\ ~hw_call.raised
        /\ hw_call.gpu_count =
               Cardinality({k \in 1..Len(hw_call.gpus) : hw_call.gpus[k].index >= 0})
        /\ hw_call.input.outcome # "ok" => hw_call.gpu_count = 0
        /\ hw_call.detection_enabled = DetectionEnabled
\* C18: the log buffer never holds more than 300 lines and always equals
\* the last min(300, k) of the k lines read from the child so far, in the
\* order they were read.
LogBufferLastRead ==
    /\ Len(log_buffer) <= LogCapacity
    /\ log_buffer =
           LastN([k \in 1..Len(lines_read) |-> lines_read[k].text], LogCapacity)

\* C18 (as the code has it): the log buffer never holds more than 300 lines
\* and always equals the last min(300, k) of the k lines appended so far, in
\* order, where every line read by the monitor loop is appended with its
\* surrounding whitespace stripped (a blank line as the empty string), and
\* of the output read in one piece after the child's exit the lines that
\* are blank after stripping are not appended at all.
LogBufferLastAppended ==
    /\ Len(log_buffer) <= LogCapacity
    /\ log_buffer =
           LastN(LET kept == SelectSeq(lines_read,
                                      LAMBDA l : ~l.drained \/ Strip(l.text) # <<>>)
                 IN  [k \in 1..Len(kept) |-> Strip(kept[k].text)],
                 LogCapacity)

\* the buffer is full, its oldest lines have been dropped, and part of the
\* output was read after the child's exit, a blank line included
LogBufferLastAppendedWitness ==
    /\ log_mon.pc = "done"
    /\ Len(log_buffer) = LogCapacity
    /\ Len(lines_read) > LogCapacity + 1
    /\ log_buffer[1] # Strip(lines_read[1].text)
    /\ \E k \in 1..Len(lines_read) :
           lines_read[k].drained /\ Strip(lines_read[k].text) = <<>>
    /\ \E k \in 1..Len(lines_read) :
           ~lines_read[k].drained /\ Strip(lines_read[k].text) = <<>>

\* C19: start is rejected with an error whenever the supervisor's state is
\* not stopped or crashed, and a rejected start changes nothing (state,
\* process handle, monitor task, HTTP client); from stopped or crashed, a
\* start that succeeds ends in state running with exactly one child process.
StartContract ==
    sup_ret.op = "start" =>
        /\ sup_ret.before.status \notin {"stopped", "crashed"} =>
               /\ sup_ret.result = "raised"
               /\ sup = sup_ret.before
        /\ sup_ret.result = "true" =>
               /\ sup_ret.before.status \in {"stopped", "crashed"}
               /\ sup.status = "running"
               /\ sup.proc = "alive"
               /\ sup_env.orphans = 0

\* C20: every change of the supervisor's state follows one of the edges
\* stopped->starting, starting->running, running->stopping,
\* stopping->stopped, running->crashed, crashed->starting, starting->error,
\* running->error, stopping->error.
StateEdges ==
    [][sup'.status # sup.status =>
           <<sup.status, sup'.status>> \in
               {<<"stopped", "starting">>, <<"starting", "running">>,
                <<"running", "stopping">>, <<"stopping", "stopped">>,
                <<"running", "crashed">>, <<"crashed", "starting">>,
                <<"starting", "error">>, <<"running", "error">>,
                <<"stopping", "error">>}]_vars

\* C21: stop on a supervisor whose state is stopped returns success in the
\* call itself, before any signal is sent, and changes nothing; so a stop
\* that follows a successful stop returns success and leaves the supervisor
\* as the first stop left it.
StopIdempotent ==
    [][ /\ (sup_ret'.op = "stop" /\ sup_ret'.before.status = "stopped") =>
               /\ sup_call.op = "none"
               /\ sup_ret'.before = sup
               /\ sup_ret'.result = "true"
               /\ sup' = sup
               /\ sup_env' = sup_env
        /\ (sup_ret.op = "stop" /\ sup_ret.result = "true"
              /\ sup_call'.calls = sup_call.calls + 1 /\ sup_ret'.op = "stop") =>
               /\ sup_ret'.result = "true"
               /\ sup' = sup
      ]_vars

\* a stop has just returned on a supervisor that an earlier stop, of a
\* running child, had left stopped
StopIdempotentWitness ==
    /\ sup_ret.op = "stop"
    /\ sup_ret.result = "true"
    /\ sup_ret.before.status = "stopped"
    /\ sup_ret.before.monitor = "done"
    /\ sup = sup_ret.before

\* C22: whenever stop returns on a supervisor that had a child process, a
\* monitor thread or an HTTP client, no monitor thread of the supervisor is
\* running any more and the HTTP client has been released.
StopJoinsMonitor ==
    (/\ sup_ret.op = "stop"
     /\ \/ sup_ret.before.proc # "none"
        \/ sup_ret.before.monitor \in {"loop", "handle"}
        \/ sup_ret.before.http_client) =>
        /\ sup.monitor \notin {"loop", "handle"}
        /\ sup_env.stale = 0
        /\ ~sup.http_client

\* C23: if the child exits while the state is running and no stop was
\* requested, the monitor eventually sets the state to crashed (unless a
\* stop is requested in between), and when it does the child's remaining
\* output has been appended: the buffer ends with the child's last output
\* lines.
CrashFlushesOutput ==
    /\ [](sup.status = "crashed" =>
              /\ child_out.pipe = <<>>
              /\ log_buffer =
                     LastN([k \in 1..child_out.written |->
                               ScriptLine(child_out.script, k)], LogCapacity))
    /\ []((~child_out.alive /\ sup.status = "running" /\ sup_call.op = "none")
             => <>(sup.status = "crashed" \/ sup_call.op # "none"))

\* C23 (as the code has it): the same, where the buffer ends with the
\* child's last output lines each stripped of surrounding whitespace, the
\* lines read after the exit that are blank after stripping left out.
CrashFlushesStripped ==
    /\ [](sup.status = "crashed" =>
              /\ child_out.pipe = <<>>
              /\ [k \in 1..Len(lines_read) |-> lines_read[k].text]
                   = [k \in 1..child_out.written |->
                         ScriptLine(child_out.script, k)]
              /\ log_buffer =
                     LastN(LET kept == SelectSeq(lines_read,
                               LAMBDA l : ~l.drained \/ Strip(l.text) # <<>>)
                           IN  [k \in 1..Len(kept) |-> Strip(kept[k].text)],
                           LogCapacity))
    /\ []((~child_out.alive /\ sup.status = "running" /\ sup_call.op = "none")
             => <>(sup.status = "crashed" \/ sup_call.op # "none"))

\* the monitor has written CRASHED after a child that printed, with no stop
\* requested, and part of the output was read after the exit
CrashFlushesStrippedWitness ==
    /\ sup.status = "crashed"
    /\ sup_call.op = "none"
    /\ child_out.written > 1
    /\ \E k \in 1..Len(lines_read) : lines_read[k].drained
    /\ log_buffer # <<>>

\* C24: after an unexpected exit, when the attempt counter is below the
\* maximum the supervisor relaunches the child and the state eventually
\* returns to running (unless the caller steps in first); when the maximum
\* has been reached crash handling sets error and launches nothing.
AutoRestart ==
    /\ []((/\ sup.status = "crashed"
            /\ sup.restart_count < MaxRestartAttempts
            /\ sup_call.op = "none") =>
             <>(\/ sup.status = "running" /\ sup.proc = "alive"
                \/ sup_call.op # "none"))
    /\ [][(/\ sup.monitor = "handle"
            /\ sup'.monitor = "done"
            /\ sup.restart_count >= MaxRestartAttempts) =>
               /\ sup'.status = "error"
               /\ sup'.proc = sup.proc]_vars

\* C25: each crash-handling round waits min(2^restart_count, 60) seconds,
\* with the counter's value before the round, and then increments the
\* counter by exactly one; the counter equals the number of rounds performed
\* and never exceeds the configured maximum.
BackoffRounds ==
    [][ /\ sup_env'.rounds # sup_env.rounds =>
               /\ sup_env'.rounds = sup_env.rounds + 1
               /\ sup_env'.wait = BackoffWait(sup)
               /\ sup'.restart_count = sup.restart_count + 1
        /\ sup'.restart_count = sup_env'.rounds
        /\ sup'.restart_count <= MaxRestartAttempts
      ]_vars

\* C26: whenever no operation is in progress, the registry's keys are the
\* keys of the active-instance map, and each record carries the model id
\* and the port of the instance under its key.
RegistryMirrorsInstances ==
    (\A s \in Slots : ops[s] = IdleOp) =>
        /\ DOMAIN registry = InstKeys
        /\ \A k \in InstKeys :
               /\ registry[k].model_id = InstAt(gpu_instances, k).model_id
               /\ registry[k].port = InstAt(gpu_instances, k).port

\* an unload has just returned success while another instance, loaded
\* before it, is still active and registered
RegistryMirrorsInstancesWitness ==
    /\ \A s \in Slots : ops[s] = IdleOp
    /\ last.kind = "unload" /\ last.result = "ok"
    /\ InstKeys # {}
    /\ DOMAIN registry = InstKeys

\* C27: when the manager's construction returns, the registry holds exactly
\* the records of the file whose pid the sweep's probe found alive, each
\* unchanged: a record whose pid is alive is kept as it was, a record
\* that is gone had a dead pid, and a record whose pid the probe found dead
\* is gone; the instance map is empty and no supervisor has been created.
SweepAtConstruction ==
    recovery.pc = "done" =>
        /\ DOMAIN registry =
               {k \in DOMAIN recovery.stored : recovery.results[k]}
        /\ \A k \in DOMAIN registry : registry[k] = recovery.stored[k]
        /\ \A k \in DOMAIN recovery.stored :
               /\ ~recovery.results[k] => k \notin DOMAIN registry
               /\ recovery.stored[k].pid \in recovery.alive =>
                      k \in DOMAIN registry /\ registry[k] = recovery.stored[k]
               /\ k \notin DOMAIN registry =>
                      recovery.stored[k].pid \notin recovery.alive
        /\ gpu_instances = <<>>
        /\ created = 0
        /\ \A a \in AdapterIds : adapters[a] = FreshAdapter

\* construction has returned over a file with a dead record and a live one
SweepAtConstructionWitness ==
    /\ recovery.pc = "done"
    /\ \E k \in DOMAIN recovery.stored : ~recovery.results[k]
    /\ \E k \in DOMAIN recovery.stored :
           /\ recovery.stored[k].pid \in recovery.alive
           /\ registry[k] = recovery.stored[k]

\* C28: while one operation is in a wait on key A (polling health, or
\* waiting in stop_server for the child to exit), an operation in progress
\* on a disjoint key B can take its next step.
WaitsDoNotBlock ==
    \A s \in Slots, t \in Slots :
        (/\ s # t
         /\ last = NoLast
         /\ ops[s].pc \in {"wait", "probe", "stopA"}
         /\ ops[t].pc \in {"wait", "probe"}
         /\ KeyDevices(ops[s].key) \cap KeyDevices(ops[t].key) = {})
            => ENABLED (WaitTimeout(t) \/ WaitProbe(t) \/ ProbeFails(t)
                            \/ ProbeSucceeds(t))

\* C29: a stop in progress is not overtaken by crash detection, and what a
\* successful stop leaves is not overwritten: while stop_server is between
\* setting STOPPING and returning, no step sets the state to crashed or
\* enters crash handling, and once stop has returned True the state stays
\* stopped for as long as no further call is made.
StopNotOvertaken ==
    [][ /\ (sup_call.pc \in {"stopA", "stopB"} /\ sup.status = "stopping") =>
               /\ sup'.status # "crashed"
               /\ sup'.monitor # "handle"
        /\ (sup_call.op = "none" /\ sup_call'.op = "none"
              /\ sup.status = "stopped" /\ sup_call.calls > 0) =>
               sup'.status = "stopped"
      ]_vars

\* C30: a switch to a model id that is not configured returns not found
\* (a validation error when the resource spec itself is invalid) in its
\* first step, before any unload: the instance map, every supervisor and
\* the registry are as they were.
SwitchUnknownRejected ==
    [][ (last = NoLast /\ last'.kind = "switch" /\ last'.model \notin Models) =>
            /\ last'.result \in {"not_found", "validation_error"}
            /\ NormTable[last'.raw].ok => last'.result = "not_found"
            /\ ops' = ops
            /\ gpu_instances' = gpu_instances
            /\ registry' = registry
            /\ adapters' = adapters
            /\ created' = created
      ]_vars

\* a switch to an unknown model has just been rejected on a key whose
\* instance is active, its supervisor running and its record in place
SwitchUnknownRejectedWitness ==
    /\ last.kind = "switch"
    /\ last.result = "not_found"
    /\ last.model \notin Models
    /\ NormTable[last.raw].ok
    /\ HasInst(NormTable[last.raw].key)
    /\ NormTable[last.raw].key \in DOMAIN registry
    /\ adapters[InstAt(gpu_instances, NormTable[last.raw].key).adapter].status
           = "running"

\* C31: every load call returns: a load in flight in a slot leads to that
\* slot having returned, whatever the other callers do meanwhile; and a
\* load that is polling leaves its wait only to poll on, to return success
\* after a probe succeeded, or to stop its own child after the timeout or
\* the child's exit, and no other operation stops its supervisor.
LoadTerminates ==
    /\ \A s \in Slots : (ops[s].kind = "load") ~> (ops[s].kind # "load")
    /\ [][ \A s \in Slots :
              (ops[s].kind = "load" /\ ops[s].pc \in {"wait", "probe"}) =>
                  /\ ops'[s] # ops[s] =>
                         \/ /\ ops'[s].kind = "load"
                            /\ ops'[s].adapter = ops[s].adapter
                            /\ ops'[s].pc \in {"wait", "probe", "stopA"}
                         \/ /\ ops'[s] = IdleOp
                            /\ last'.kind = "load"
                            /\ last'.aid = ops[s].adapter
                            /\ last'.result \in {"ok", "not_ready"}
                            /\ last'.result = "ok" => ops[s].pc = "probe"
                  /\ ops'[s] = ops[s] =>
                         adapters'[ops[s].adapter].status
                             \in {adapters[ops[s].adapter].status, "crashed"}
      ]_vars

\* a load has returned after its readiness wait timed out or saw the child
\* gone, while another operation was in flight
LoadTerminatesWitness ==
    /\ last.kind = "load"
    /\ last.result = "not_ready"
    /\ \E s \in Slots : ops[s] # IdleOp

\* C32: an entry enters the instance map (or is replaced) only in the step
\* in which a load, or the load of a switch, returns success for its key,
\* and leaves it only in the del of an unload whose stop succeeded, after
\* the record was unregistered; a crash seen by a monitor, a failing probe
\* and an unload whose stop fails leave the map and the registry as they
\* are; no load gets past its conflict check while an entry holds one of
\* its devices; a load that returns success has its entry, an unload that
\* returns success has none.
InstanceLifetime ==
    [][ LET K == InstKeys
            K2 == {gpu_instances'[i].key : i \in 1..Len(gpu_instances')}
        IN  /\ \A k \in K2 :
                   (k \notin K \/ InstAt(gpu_instances', k) # InstAt(gpu_instances, k)) =>
                       /\ last'.kind \in {"load", "switch"}
                       /\ last'.result = "ok"
                       /\ NormTable[last'.raw].key = k
                       /\ InstAt(gpu_instances', k).model_id = last'.model
            /\ \A k \in K \ K2 :
                   /\ \E s \in Slots :
                          /\ ops[s].pc = "del" /\ ops[s].key = k
                          /\ ops[s].phase = "unload"
                   /\ k \notin DOMAIN registry
                   /\ adapters[InstAt(gpu_instances, k).adapter].status = "stopped"
            /\ (\/ \E a \in AdapterIds :
                       adapters'[a].status = "crashed" /\ adapters[a].status # "crashed"
                \/ last'.result = "stop_failed"
                \/ \E s \in Slots : ops[s].pc = "probe" /\ ops'[s].pc = "wait") =>
                   gpu_instances' = gpu_instances /\ registry' = registry
            /\ \A s \in Slots :
                   (ops[s] = IdleOp /\ ops'[s].kind = "load") =>
                       \A k \in K : KeyDevices(k) \cap KeyDevices(ops'[s].key) = {}
            /\ (last'.kind = "load" /\ last'.result = "ok") =>
                   NormTable[last'.raw].key \in K2
            /\ (last'.kind = "unload" /\ last'.result = "ok") =>
                   NormTable[last'.raw].key \notin K2
      ]_vars

\* an unload has just failed because its supervisor's stop failed, and the
\* entry and its record are still there
InstanceLifetimeWitness ==
    /\ last.kind = "unload"
    /\ last.result = "stop_failed"
    /\ HasInst(NormTable[last.raw].key)
    /\ NormTable[last.raw].key \in DOMAIN registry

\* C33: the status of an active instance carries the supervisor's state and
\* pid as they are at the call, and memory figures that are the sums, over
\* the devices of the key, of what the monitoring command reports at the
\* call: 0 and 0 when the command fails or reports no device.
StatusIsFresh ==
    [][ (hw_call'.call = "get_gpu_status" /\ hw_call # hw_call'
             /\ hw_call'.status.present) =>
        LET st == hw_call'.status
            inst == InstAt(gpu_instances, hw_call'.key)
            parsed == IF hw_call'.input.outcome = "ok" THEN hw_call'.input.gpus
                      ELSE <<>>
            Reading(i, field) ==
                IF i \in KeyDevices(hw_call'.key)
                       /\ \E k \in 1..Len(parsed) : parsed[k].index = i
                    THEN (CHOOSE g \in {parsed[k] : k \in 1..Len(parsed)} :
                              g.index = i)[field]
                ELSE 0
        IN  /\ HasInst(hw_call'.key)
            /\ st.status = adapters[inst.adapter].status
            /\ st.pid = GetPid(adapters[inst.adapter], inst.adapter)
            /\ st.model_id = inst.model_id
            /\ st.memory_used_mb =
                   Reading(0, "memory_used") + Reading(1, "memory_used")
            /\ st.memory_total_mb =
                   Reading(0, "memory_total") + Reading(1, "memory_total")
      ]_vars

\* a status of the instance on both devices, whose child has crashed, with
\* the two devices reporting different readings
StatusIsFreshWitness ==
    /\ hw_call.call = "get_gpu_status"
    /\ hw_call.status.present
    /\ hw_call.status.status = "crashed"
    /\ hw_call.key = <<"0", ",", "1">>
    /\ hw_call.status.memory_used_mb = DefaultThreshold + 2

\* C34: get_logs(n), and get_server_logs(key, n) for an active key, return
\* at most n lines for every n >= 0, and those are the last min(n, size)
\* lines of the buffer, in the buffer's order.
GetLogsAtMostN ==
    [][ (sup_ret'.op \in {"get_logs", "get_server_logs"} /\ sup_ret # sup_ret') =>
            LET n == sup_ret'.lines
                size == Len(log_buffer)
                m == IF n < size THEN n ELSE size
            IN  /\ Len(sup_ret'.result) <= n
                /\ sup_ret'.result = SubSeq(log_buffer, size - m + 1, size)
      ]_vars

\* C35: get_status reports the no-model stopped status only when the
\* instance map is empty; with an instance on any key it reports the status
\* of an active instance, and get_current_model the model of one.
LegacyStatusSeesAll ==
    [][ /\ (last = NoLast /\ last'.kind = "get_status") =>
               IF gpu_instances = <<>> THEN last'.view = NoModelStatus
               ELSE \E i \in 1..Len(gpu_instances) :
                        last'.view = InstanceStatus(gpu_instances[i], adapters)
        /\ (last = NoLast /\ last'.kind = "get_current_model") =>
               IF gpu_instances = <<>> THEN last'.model = "none"
               ELSE \E i \in 1..Len(gpu_instances) :
                        last'.model = gpu_instances[i].model_id
      ]_vars

\* C36: in every reachable state two distinct active instances have distinct
\* ports, and the port of each instance is the port of its own key.
DistinctPorts ==
    /\ \A i \in 1..Len(gpu_instances), j \in 1..Len(gpu_instances) :
           i # j => gpu_instances[i].port # gpu_instances[j].port
    /\ \A i \in 1..Len(gpu_instances) :
           gpu_instances[i].port = GetPortForGpu(RawStr(gpu_instances[i].key))

\* C37: whenever switch(m, R) returns success, the instance on normalize(R)
\* has model m and its supervisor is running at the moment of return, also
\* when the instance already had model m and its child had crashed.
SwitchSuccessRuns ==
    [][ (last'.kind = "switch" /\ last'.result = "ok" /\ last' # last) =>
            \E i \in 1..Len(gpu_instances') :
                /\ gpu_instances'[i].key = NormalizeGpuId(last'.raw).key
                /\ gpu_instances'[i].model_id = last'.model
                /\ adapters'[gpu_instances'[i].adapter].status = "running"
      ]_vars

\* C38: the detector's mapping has an entry for a resource key only while an
\* instance is active on that key; after a successful unload of the key no
\* entry for it remains.
MappingOnlyWhileActive ==
    \A k \in DOMAIN gpu_detector.mapping :
        \E i \in 1..Len(gpu_instances) : RawStr(gpu_instances[i].key) = k

\* C39: whenever stop_server returns True, from any earlier state (stopped,
\* running, crashed, or error after a failed start that left no child), the
\* supervisor's status is stopped, so that a following start is accepted.
StopSuccessIsStopped ==
    [][ (/\ sup_ret'.op = "stop"
         /\ sup_ret'.result = "true"
         /\ (sup_call'.calls # sup_call.calls \/ sup_call.op = "stop")) =>
            /\ sup'.status = "stopped"
            /\ ~StartServerCheck(sup').raised
      ]_vars

\* C40: a registry record that survived the sweep at construction is never
\* overwritten or silently lost: while the recorded process is running no
\* load replaces the record with another pid, and an unload of the record's
\* key removes the record.
SurvivorRecordKept ==
    [][ recovery.pc = "done" =>
          /\ \A k \in DOMAIN registry :
                 (/\ k \in DOMAIN recovery.stored
                  /\ registry[k] = recovery.stored[k]
                  /\ registry[k].pid \in recovery.alive
                  /\ k \in DOMAIN registry') =>
                     registry'[k].pid = registry[k].pid
          /\ (last = NoLast /\ last'.kind = "unload" /\ last'.result = "ok") =>
                 NormalizeGpuId(last'.raw).key \notin DOMAIN registry'
      ]_vars

====
